---- MODULE Spec2Model ----
(***************************************************************************)
(* PyMiniRacer: the Python side of the bridge to the embedded V8 engine    *)
(* (src/src/py_mini_racer/py_mini_racer.py).  The model covers the task /  *)
(* callback dispatcher (_Context._run_mr_task, mr_callback, _SyncFuture),  *)
(* the promise adapter (_attach_callbacks_to_promise, get_from_promise,    *)
(* await_promise), the wire-value decoder (_ValueHandle.to_python) and the *)
(* value-handle lifecycle (_ValueHandle.__del__, _Context.free).           *)
(* The engine itself (mini_racer DLL) is not part of the Python sources;   *)
(* its behaviour is modelled from the specification's section 6 ABI.       *)
(***************************************************************************)
EXTENDS Integers, Sequences, FiniteSets, TLC

(***************************************************************************)
(* Bounds of the model.                                                    *)
(***************************************************************************)
\* total number of host operations (evaluate, call, get, ...) started
MaxOps == 2

\* host threads using the one Context
Threads == {"t1", "t2"}

\* JS promises living in the engine
Promises == {"p1"}

(***************************************************************************)
(* _MiniRacerTypes: the wire type tags.                                    *)
(***************************************************************************)
invalid == 0
null == 1
bool == 2
integer == 3
double == 4
str_utf8 == 5
array == 6
hash == 7
date == 8
symbol == 9
object == 10
undefined == 11
function == 100
shared_array_buffer == 101
array_buffer == 102
promise == 103
execute_exception == 200
parse_exception == 201
oom_exception == 202
timeout_exception == 203
terminated_exception == 204
value_exception == 205
key_exception == 206

\* _ERRORS: error tag -> exception class (the generic message is not modelled)
ERRORS ==
  (parse_exception :> "JSParseException") @@
  (execute_exception :> "JSEvalException") @@
  (oom_exception :> "JSOOMException") @@
  (terminated_exception :> "JSTerminatedException") @@
  (key_exception :> "JSKeyError") @@
  (value_exception :> "JSValueError")

\* classes derived from JSEvalException (isinstance(value, JSEvalException))
JSEvalExceptionClasses ==
  {"JSEvalException", "JSParseException", "JSOOMException", "JSTerminatedException",
   "JSKeyError", "JSValueError", "JSTimeoutException"}

\* classes derived from JSMappedObject (isinstance(reason, JSMappedObject))
JSMappedObjectClasses == {"JSMappedObject", "JSFunction", "JSSymbol"}

(***************************************************************************)
(* Python values.  k: "none" | "scalar" | "proxy" | "exc" | "raise".       *)
(* A proxy (JSObject subclass cls) holds the _ValueHandle h = <<raw, n>>,  *)
(* the n-th wrapper made for wire value raw, and talks to wire value raw.  *)
(* An exception of class cls carries msg and, for JSPromiseError, the      *)
(* rejection reason (its handle h).                                        *)
(***************************************************************************)
NoHandle == <<0, 0>>
PyVal(k, cls, raw, h, msg) == [k |-> k, cls |-> cls, raw |-> raw, h |-> h, msg |-> msg]
None == PyVal("none", "", 0, NoHandle, "")
Scalar(cls) == PyVal("scalar", cls, 0, NoHandle, "")
Proxy(cls, h) == PyVal("proxy", cls, h[1], h, "")
Exc(cls, msg) == PyVal("exc", cls, 0, NoHandle, msg)
Raise(cls) == PyVal("raise", cls, 0, NoHandle, "")

\* _ValueHandle.to_python, with a defect: a proxy that does not keep its handle
to_python_unowned(typ, h) ==
  IF typ \in DOMAIN ERRORS THEN Exc(ERRORS[typ], "payload")
  ELSE IF typ = null THEN None
  ELSE IF typ \in {undefined, bool, integer, double, str_utf8, date} THEN Scalar("scalar")
  ELSE IF typ = function THEN PyVal("proxy", "JSFunction", h[1], NoHandle, "")
  ELSE IF typ = symbol THEN PyVal("proxy", "JSSymbol", h[1], NoHandle, "")
  ELSE IF typ = promise THEN PyVal("proxy", "JSPromise", h[1], NoHandle, "")
  ELSE IF typ = array THEN PyVal("proxy", "JSArray", h[1], NoHandle, "")
  ELSE IF typ = object THEN PyVal("proxy", "JSMappedObject", h[1], NoHandle, "")
  ELSE Raise("JSConversionException")

\* _ValueHandle.to_python: decode the wire value of tag typ held by handle h.
\* An error tag gives the exception as a value (to_python_or_raise raises it);
\* an unrecognised tag raises JSConversionException.
to_python(typ, h) ==
  IF typ \in DOMAIN ERRORS THEN Exc(ERRORS[typ], "payload")
  ELSE IF typ = null THEN None
  ELSE IF typ \in {undefined, bool, integer, double, str_utf8, date} THEN Scalar("scalar")
  ELSE IF typ = function THEN Proxy("JSFunction", h)
  ELSE IF typ = symbol THEN Proxy("JSSymbol", h)
  ELSE IF typ \in {shared_array_buffer, array_buffer} THEN Proxy("memoryview", h)
  ELSE IF typ = promise THEN Proxy("JSPromise", h)
  ELSE IF typ = array THEN Proxy("JSArray", h)
  ELSE IF typ = object THEN Proxy("JSMappedObject", h)
  ELSE Raise("JSConversionException")

\* _ValueHandle.to_python_or_raise: "val = self.to_python(); if isinstance(val,
\* JSEvalException): raise val".  An exception that leaves this frame (raised here,
\* or by to_python) carries a traceback that references the frame and so its
\* self, the handle: the handle lives as long as the exception is kept.
to_python_or_raise(typ, h) ==
  LET val == to_python(typ, h)
  IN IF val.k \in {"exc", "raise"} THEN [val EXCEPT !.h = h] ELSE val

(***************************************************************************)
(* State.                                                                  *)
(***************************************************************************)
VARIABLES
  th,                \* host threads: the operation each runs and its position
  held,              \* host code's variable per thread: a value or exception it keeps
  last,              \* how the value a thread holds was obtained (its last operation)
  ops_started,       \* number of operations started so far
  active_callbacks,  \* _Context._active_callbacks: callback id -> continuation
  next_callback_id,  \* _Context._next_callback_id (itertools.count)
  cleanups,          \* the cleanups list of each promise attachment
  future,            \* the futures still referenced, by the callback id made for them
  loop_calls,        \* asyncio loop: calls scheduled with call_soon_threadsafe
  invoked,           \* how often the continuation registered under an id was invoked
  pop_missing,       \* number of _active_callbacks.pop(id) calls that found no entry
  task,              \* engine: the tasks in flight, by callback id
  pstate,            \* engine: state of each JS promise ("none": not created yet)
  reactions,         \* engine: then-reactions attached to each promise
  values,            \* engine: wire values allocated and not yet freed
  rawinfo,           \* engine: tag and content of each live wire value
  free_errors        \* engine: mr_free_value calls for a wire value that was not live

\* the process-wide library state (module globals of py_mini_racer.py)
VARIABLES
  dll_handle,        \* _dll_handle: 0 is None, n the handle that the n-th mr_init_v8 gave
  init_lock,         \* _init_lock: the thread holding it, "" when free
  v8_inits,          \* how often mr_init_v8 ran in this process
  init_call,         \* per thread: its init_mini_racer call and where it stands
  init_calls         \* number of init_mini_racer calls started

\* one JS array seen through a JSArray proxy
VARIABLES
  js_array,          \* engine: the elements of the array (0: a hole)
  js_props,          \* engine: the negative keys set as properties of the array
  array_op           \* the last JSArray operation: arguments, array before, outcome,
                     \* the engine calls it made, the element it returned

\* one value sent through the wire format
VARIABLES
  py_obj,            \* the Python value handed to _python_to_value_handle
  wire_val,          \* the wire value (_RawValue)
  py_result,         \* what _ValueHandle.to_python made of the wire value
  encoded            \* the _ValueHandle _python_to_value_handle returned, and the
                     \* Context's value count before and after the call

\* the memory limits of the Context
VARIABLES
  mem_limits         \* engine: the soft and the hard memory limit set (0: none)

\* one MiniRacer instance, its Context and the handles made for it, as the host's
\* memory management sees them
VARIABLES
  mr_ref,            \* the host's reference to the MiniRacer instance
  ctx_state,         \* the _Context object and its engine context
  handle_state,      \* each _ValueHandle of the Context
  task_running,      \* a host thread is inside an operation on the Context
  engine_log         \* engine: the context count, and the calls it received

\* the array buffers the engine returned, as the host's reference counting sees them
VARIABLES
  buffers            \* per buffer: its wire value, its handle's referrers, its views

\* the timer manager _INSTALL_SET_TIMEOUT installs in the JS realm
VARIABLES
  timer_manager,     \* JS: __timer_manager (next_idx, pending)
  timers,            \* JS: per timer id, its wait, its clearing and its invocations
  timer_ids          \* the ids setTimeout returned, in call order

\* host threads registering callbacks with one Context, statement by statement
VARIABLES
  registrants,       \* per thread: where it stands, the id it drew, the ids it stored
  ids_drawn          \* every id next(self._next_callback_id) returned, in order

\* one _SyncFuture, the thread that waits on it and the thread that settles it
VARIABLES
  sync_future,       \* _settled, _res, _exc, and the Condition: lock owner, waiter
  sf_getter,         \* the thread calling get: where it stands in get and in wait
  sf_setter,         \* the thread calling set_result or set_exception
  get_log            \* how each finished get call ended

libVars == <<dll_handle, init_lock, v8_inits, init_call, init_calls>>
arrayVars == <<js_array, js_props, array_op>>
convVars == <<py_obj, wire_val, py_result, encoded>>
memVars == <<mem_limits>>
gcVars == <<mr_ref, ctx_state, handle_state, task_running, engine_log>>
bufVars == <<buffers>>
timerVars == <<timer_manager, timers, timer_ids>>
idVars == <<registrants, ids_drawn>>
sfVars == <<sync_future, sf_getter, sf_setter, get_log>>
auxVars == <<libVars, arrayVars, convVars, memVars, gcVars, bufVars, timerVars, idVars, sfVars>>

ctxVars == <<th, held, last, ops_started, active_callbacks, next_callback_id, cleanups,
             future, loop_calls, invoked, pop_missing, task, pstate, reactions, values,
             rawinfo, free_errors>>

\* what the steps of each of the other state machines leave alone
notLibVars == <<ctxVars, arrayVars, convVars, memVars, gcVars, bufVars, timerVars, idVars, sfVars>>
notArrayVars == <<ctxVars, libVars, convVars, memVars, gcVars, bufVars, timerVars, idVars, sfVars>>
notConvVars == <<ctxVars, libVars, arrayVars, memVars, gcVars, bufVars, timerVars, idVars, sfVars>>
notMemVars == <<ctxVars, libVars, arrayVars, convVars, gcVars, bufVars, timerVars, idVars, sfVars>>
notGcVars == <<ctxVars, libVars, arrayVars, convVars, memVars, bufVars, timerVars, idVars, sfVars>>
notBufVars == <<ctxVars, libVars, arrayVars, convVars, memVars, gcVars, timerVars, idVars, sfVars>>
notTimerVars == <<ctxVars, libVars, arrayVars, convVars, memVars, gcVars, bufVars, idVars, sfVars>>
\* (the registering threads work on the Context's own counter and table)
notIdVars == <<th, held, last, ops_started, cleanups, future, loop_calls, invoked,
               pop_missing, task, pstate, reactions, values, rawinfo, free_errors,
               libVars, arrayVars, convVars, memVars, gcVars, bufVars, timerVars, sfVars>>
notSfVars == <<ctxVars, libVars, arrayVars, convVars, memVars, gcVars, bufVars, timerVars, idVars>>

vars == <<ctxVars, auxVars>>

hostVars == <<th, held, last, ops_started>>
cbVars == <<active_callbacks, next_callback_id, cleanups>>
promiseVars == <<pstate, reactions>>

NoId == 0 - 1

\* _SyncFuture.__init__ / asyncio.Future(): unsettled.  For a promise attachment the
\* result is the pair [is_rejected, argv]: is_rejected and res = argv.
NewFuture == [settled |-> FALSE, res |-> None, exc |-> None, is_rejected |-> FALSE]

IdleThread ==
  [op |-> "idle", pc |-> "idle", stage |-> "", timeout |-> FALSE, cb |-> NoId,
   att |-> NoId, rej |-> NoId, outcome |-> None, timed_out |-> FALSE,
   code |-> NoHandle, locals |-> {},
   max_memory |-> NoId]

NoLast == [op |-> "", timed_out |-> FALSE, rejected |-> FALSE, elem |-> ""]

\* state after MiniRacer() / _Context.__init__: no callbacks, counter at 0
CtxInit ==
  /\ th = [h \in Threads |-> IdleThread]
  /\ held = [h \in Threads |-> None]
  /\ last = [h \in Threads |-> NoLast]
  /\ ops_started = 0
  /\ active_callbacks = <<>>
  /\ next_callback_id = 0
  /\ cleanups = <<>>
  /\ future = <<>>
  /\ loop_calls = {}
  /\ invoked = <<>>
  /\ pop_missing = 0
  /\ task = <<>>
  /\ pstate = [p \in Promises |-> [st |-> "none", val |-> ""]]
  /\ reactions = [p \in Promises |-> {}]
  /\ values = {}
  /\ rawinfo = <<>>
  /\ free_errors = 0

\* the library is initialised (a Context exists) and no init_mini_racer call runs
NoInitCall == [pc |-> "idle", ignore |-> FALSE, after |-> FALSE, raised |-> "", handle |-> 0]

LibReady ==
  /\ dll_handle = 1
  /\ init_lock = ""
  /\ v8_inits = 1
  /\ init_call = [h \in Threads |-> NoInitCall]
  /\ init_calls = 0

\* no JSArray is operated on
NoArrayOp ==
  [op |-> "", index |-> 0, before |-> <<>>, raised |-> "", made |-> 0, calls |-> <<>>,
   got |-> 0]

ArrayIdle ==
  /\ js_array = <<>>
  /\ js_props = {}
  /\ array_op = NoArrayOp

\* no value is being converted: no Python value, no wire value
NoValue == [t |-> "", n |-> 0, s |-> <<>>, x |-> "", g |-> ""]
NoWire == [tag |-> 0 - 1, num |-> 0, bytes |-> <<>>, len |-> 0]

NoEncoded == [handle |-> 0, before |-> 0, count |-> 0]

ConvIdle ==
  /\ py_obj = NoValue
  /\ wire_val = NoWire
  /\ py_result = NoValue
  /\ encoded = NoEncoded

\* no memory limit is set on a new Context
\* (a limit is a number of bytes, 0 for none)
NoLimits == [soft |-> 0, hard |-> 0]

MemIdle == mem_limits = NoLimits

\* bound: the handles made for the Context whose life is followed
MaxHandles == 2

Handles == 1 .. MaxHandles

NoEngineLog ==
  [context_count |-> 0, before |-> 0, free_context |-> 0, unreleased |-> 0,
   in_flight |-> 0, late_free_value |-> 0]

\* the life of no MiniRacer instance is followed
GcIdle ==
  /\ mr_ref = "none"
  /\ ctx_state = "none"
  /\ handle_state = [x \in Handles |-> "none"]
  /\ task_running = FALSE
  /\ engine_log = NoEngineLog

\* bounds: the buffers followed, and the memoryviews host code holds on one buffer
MaxBuffers == 2
MaxViews == 3

Buffers == 1 .. MaxBuffers

\* a buffer the engine has not returned yet: tag is the result's tag, live whether
\* the wire value is allocated, origin whether cdata._origin references its
\* _ValueHandle, views the memoryviews host code holds on the cdata,
\* peak the most it held, frees the mr_free_value calls made for the wire value
NoBuffer ==
  [st |-> "none", tag |-> 0, live |-> FALSE, origin |-> FALSE, views |-> 0,
   peak |-> 0, frees |-> 0]

BufIdle == buffers = [b \in Buffers |-> NoBuffer]

\* bounds: the setTimeout calls followed, and the largest delay passed
MaxTimers == 2
MaxDelay == 1

TimerIds == 0 .. MaxTimers - 1

\* a timer id setTimeout has not handed out yet: st is where its wait stands,
\* cleared the st it had when clearTimeout was first called with its id ("": never),
\* calls the invocations of its function
NoTimer == [st |-> "unset", cleared |-> "", calls |-> 0]

\* bound: the ids drawn from the counter
MaxIds == 4

\* a thread that is registering nothing: cur is the id it drew and has not stored
\* yet, kind what it registers, own the ids it stored and has not popped
NoRegistrant == [pc |-> "ready", cur |-> 0, kind |-> "", own |-> {}]

IdIdle ==
  /\ registrants = [h \in Threads |-> NoRegistrant]
  /\ ids_drawn = <<>>

\* bound: the get calls made on the future
MaxGets == 3

\* _SyncFuture.__init__; owner is the thread inside "with self._cv" ("": nobody),
\* waiter the lock Condition.wait queued ("none", "armed", "released")
NewSyncFuture ==
  [settled |-> FALSE, res |-> 0, exc |-> 0, owner |-> "", waiter |-> "none"]

SyncFutureIdle ==
  /\ sync_future = NewSyncFuture
  /\ sf_getter = [pc |-> "idle", timed |-> FALSE, gotit |-> FALSE]
  /\ sf_setter = [pc |-> "idle", kind |-> "", arg |-> 0]
  /\ get_log = <<>>

TimerIdle ==
  /\ timer_manager = [next_idx |-> 0, pending |-> {}]
  /\ timers = [id \in TimerIds |-> NoTimer]
  /\ timer_ids = <<>>

Init == CtxInit /\ LibReady /\ ArrayIdle /\ ConvIdle /\ MemIdle /\ GcIdle /\ BufIdle /\ TimerIdle /\ IdIdle /\ SyncFutureIdle

\* a mapping without the keys ks (dict.pop), and with key k added
Without(f, ks) == [i \in (DOMAIN f) \ ks |-> f[i]]
With(f, k, v) == (k :> v) @@ Without(f, {k})

Range(q) == {q[i] : i \in DOMAIN q}

(***************************************************************************)
(* Value handles.  A _ValueHandle is <<raw, n>>.  Python frees an object   *)
(* when its last reference goes (reference counting), so after every step  *)
(* the handles no longer referenced run __del__.                           *)
(***************************************************************************)
\* the handles referenced from thread frames, host variables, futures and the calls
\* scheduled on the event loop
Refs ==
  ( UNION {th[h].locals : h \in Threads}
    \cup {th[h].code : h \in Threads}
    \cup {v.h : v \in {held[h] : h \in Threads}
                     \cup {th[h].outcome : h \in Threads}
                     \cup {future[i].res : i \in DOMAIN future}
                     \cup {c.val : c \in loop_calls}} ) \ {NoHandle}

\* wire values that host code can still name through a proxy it holds
HostRaws == {v.raw : v \in {held[h] : h \in Threads}} \ {0}

\* _Context.free, with a defect: mr_free_value is not called
free_leak(vals, raws) == vals

\* _Context.free: mr_free_value for each wire value whose handle was finalised
free(vals, raws) == vals \ raws

\* _ValueHandle.__del__ for every handle that lost its last reference in this step;
\* created are the handles made in the step, vals and info the engine's tables after
\* the step's allocations
Sweep(created, vals, info) ==
  LET dead == (Refs \cup created) \ Refs'
      raws == {d[1] : d \in dead}
  IN /\ values' = free(vals, raws)
     /\ rawinfo' = [r \in values' |-> info[r]]
     /\ free_errors' = free_errors + Cardinality({d \in dead : d[1] \notin vals})
                       + (Cardinality(dead) - Cardinality(raws))

\* engine: allocate a wire value (mr_alloc_*, or a result the engine produces)
\* in a slot of its table that holds no live value
FreeSlot(vals) == CHOOSE r \in 1 .. (Cardinality(vals) + 1) : r \notin vals

NewInfo(typ, p, elem, stack) ==
  [typ |-> typ, p |-> p, elem |-> elem, stack |-> stack, wraps |-> 0]

\* _Context._wrap_raw_handle: a new _ValueHandle for wire value r
wrap_raw_handle(info, r) == <<r, info[r].wraps + 1>>

Wrapped(info, r) == [info EXCEPT ![r].wraps = @ + 1]

\* an engine call that returns a new wire value, wrapped at once by
\* _wrap_raw_handle; st carries the engine's tables and the handles made so far
AllocWrap(st, rec) ==
  LET r == FreeSlot(st.vals)
      info == With(st.info, r, rec)
  IN [vals |-> st.vals \cup {r}, info |-> Wrapped(info, r),
      hs |-> Append(st.hs, wrap_raw_handle(info, r))]

Tables == [vals |-> values, info |-> rawinfo, hs |-> <<>>]

(***************************************************************************)
(* _SyncFuture.                                                            *)
(***************************************************************************)
\* _SyncFuture.set_result
set_result(f, res) == [f EXCEPT !.res = res, !.settled = TRUE]

\* _SyncFuture.set_exception
set_exception(f, exc) == [f EXCEPT !.exc = exc, !.settled = TRUE]

\* _SyncFuture.get once settled: raise the exception if there is one, else the result
get_settled(f) == IF f.exc # None THEN f.exc ELSE f.res

\* _SyncFuture.get whose cv.wait(timeout) returned False
JSTimeoutException == Exc("JSTimeoutException", "JavaScript was terminated by timeout")

(***************************************************************************)
(* mr_callback: the one callback the engine calls, for task results and    *)
(* for promise reactions.                                                  *)
(***************************************************************************)
\* the host thread whose get_from_promise / await_promise made attachment att is
\* still inside that call (and so still references its future)
Waiting(att) == \E h \in Threads : th[h].att = att

\* on_resolved_and_cleanup passes False, on_rejected_and_cleanup passes True;
\* here with a defect: both pass False
promise_callback_unflagged(kind) == FALSE

\* the is_rejected flag the callback registered as kind puts in the pair
promise_callback_flag(kind) == (kind = "rejected")

\* the callback of _run_mr_task, with a defect: an exception the engine delivered
\* is handed over as the result instead of being raised
task_callback_result_only(f, value) == set_result(f, value)

\* the callback that _run_mr_task registers for its future
task_callback(f, value) ==
  IF value.k = "exc" /\ value.cls \in JSEvalExceptionClasses
  THEN set_exception(f, value)
  ELSE set_result(f, value)

\* run_cleanups, with a defect: only the entry of the callback that fired is popped
run_cleanups_own(acb, ids, callback_id) == Without(acb, {callback_id})

\* run_cleanups: every cleanup of the attachment's list pops its callback id
run_cleanups(acb, ids, callback_id) == Without(acb, ids)

\* mr_callback(callback_id, raw): value is val_handle.to_python().  When the
\* conversion raises, or the id has no entry (KeyError), the exception ends the
\* callback and no continuation runs.
MrCallback(callback_id, value) ==
  IF value.k = "raise" \/ callback_id \notin DOMAIN active_callbacks
  THEN UNCHANGED <<active_callbacks, cleanups, future, invoked, loop_calls, pop_missing>>
  ELSE
    LET cb == active_callbacks[callback_id] IN
    IF cb.kind = "task"
    THEN /\ future' = [future EXCEPT ![cb.fut] = task_callback(@, value)]
         /\ invoked' = [invoked EXCEPT ![callback_id] = @ + 1]
         /\ UNCHANGED <<active_callbacks, cleanups, loop_calls, pop_missing>>
    ELSE \* run_cleanups(), then future_caller([flag, value])
      LET ids == cleanups[cb.fut]
          missing == ids \ DOMAIN active_callbacks
          flag == promise_callback_flag(cb.kind)
      IN /\ active_callbacks' = run_cleanups(active_callbacks, ids, callback_id)
         /\ cleanups' = Without(cleanups, {cb.fut})
         /\ pop_missing' = pop_missing + Cardinality(missing)
         /\ invoked' = IF Waiting(cb.fut)
                       THEN [invoked EXCEPT ![callback_id] = @ + 1]
                       ELSE Without(invoked, ids)
         /\ IF missing # {}
            THEN UNCHANGED <<future, loop_calls>>
            ELSE IF cb.mode = "sync"
            THEN /\ future' = IF Waiting(cb.fut)
                              THEN [future EXCEPT ![cb.fut] =
                                      [set_result(@, value) EXCEPT !.is_rejected = flag]]
                              ELSE Without(future, {cb.fut})
                 /\ UNCHANGED loop_calls
            ELSE /\ loop_calls' = loop_calls \cup
                                  {[fut |-> cb.fut, val |-> value, is_rejected |-> flag]}
                 /\ UNCHANGED future

(***************************************************************************)
(* The engine (mini_racer DLL).                                            *)
(***************************************************************************)
\* values a JS promise can resolve with, and reasons it can reject with:
\* a number, a string, a plain object, an Error-like object with a stack
\* property, an array that was given a stack property
ResolveValues == {"int", "obj"}
RejectReasons == {"str", "obj", "obj_stack", "arr_stack"}

\* tag and content of the wire value for such a JS value
ElemInfo(elem) ==
  IF elem = "int" THEN [typ |-> integer, stack |-> FALSE]
  ELSE IF elem = "str" THEN [typ |-> str_utf8, stack |-> FALSE]
  ELSE IF elem = "obj" THEN [typ |-> object, stack |-> FALSE]
  ELSE IF elem = "obj_stack" THEN [typ |-> object, stack |-> TRUE]
  ELSE [typ |-> array, stack |-> TRUE]

\* the result tags a task of each kind can deliver
ResultTags(kind) ==
  IF kind = "argv" THEN {array}
  ELSE IF kind = "then" THEN {promise}
  ELSE IF kind = "heap" THEN {str_utf8}
  ELSE IF kind = "call" THEN {integer, execute_exception}
  ELSE {integer, function, promise, execute_exception, invalid}

\* JS code run by a task can exceed the hard memory limit when one is set: the
\* task then ends with the out-of-memory error.  A soft limit only makes the
\* engine collect garbage; execution continues.
OOMTags(kind) ==
  IF mem_limits.hard # 0 /\ kind \in {"eval", "call"} THEN {oom_exception} ELSE {}

\* the engine finishes task id: it allocates the result and calls mr_callback once.
\* An evaluation can return a promise, one it made or one made before.
\* A task being cancelled can also end with the terminated error or with the
\* timeout error of the wire format.  A finished
\* promise.then(...) call has attached its reaction pair to the promise.
EngineDeliver(id, typ, p) ==
  /\ id \in DOMAIN task
  /\ task[id].st \in {"running", "cancelling"}
  /\ typ \in ResultTags(task[id].kind)
             \cup (IF task[id].st = "cancelling"
                   THEN {terminated_exception, timeout_exception} ELSE {})
             \cup OOMTags(task[id].kind)
  /\ p \in (IF typ = promise /\ task[id].kind = "eval" THEN Promises ELSE {""})
  /\ LET a == AllocWrap(Tables, NewInfo(typ, p, "", FALSE))
         h == a.hs[1]
     IN /\ MrCallback(id, to_python(typ, h))
        /\ task' = [task EXCEPT ![id].st = "done", ![id].res = typ]
        /\ reactions' = IF task[id].kind = "then"
                        THEN [reactions EXCEPT ![task[id].p] = @ \cup {task[id].att}]
                        ELSE reactions
        /\ pstate' = IF p # "" /\ pstate[p].st = "none"
                     THEN [pstate EXCEPT ![p].st = "pending"]
                     ELSE pstate
        /\ UNCHANGED <<hostVars, next_callback_id>>
        /\ UNCHANGED auxVars
        /\ Sweep({h}, a.vals, a.info)

\* mr_cancel_task: interrupt the task if it is not already done
CancelTask(tk) ==
  [tk EXCEPT !.st = IF @ = "running" THEN "cancelling" ELSE @, !.cancels = @ + 1]

\* JS code resolves or rejects promise p
Settle(p, st, val) ==
  /\ pstate[p].st = "pending"
  /\ val \in (IF st = "resolved" THEN ResolveValues ELSE RejectReasons)
  /\ pstate' = [pstate EXCEPT ![p] = [st |-> st, val |-> val]]
  /\ UNCHANGED <<hostVars, cbVars, future, loop_calls, invoked, pop_missing, task,
                 reactions, values, rawinfo, free_errors, auxVars>>

\* the settled promise p runs the reaction pair of attachment att: the JS callback
\* for its state calls mr_callback with that callback's id and the argument array
FireReaction(p, att) ==
  /\ pstate[p].st # "pending"
  /\ att \in reactions[p]
  /\ LET id == IF pstate[p].st = "resolved" THEN att ELSE att + 1
         a == AllocWrap(Tables, NewInfo(array, "", pstate[p].val, FALSE))
         h == a.hs[1]
     IN /\ MrCallback(id, to_python(array, h))
        /\ reactions' = [reactions EXCEPT ![p] = @ \ {att}]
        /\ UNCHANGED <<hostVars, next_callback_id, task, pstate>>
        /\ UNCHANGED auxVars
        /\ Sweep({h}, a.vals, a.info)

(***************************************************************************)
(* _Context._run_mr_task and the operations built on it.                   *)
(***************************************************************************)
\* a host operation returns (or raises) out to host code, which keeps it in its
\* variable; l records how it was obtained
Finish(h, out, l) ==
  /\ th' = [th EXCEPT ![h] = IdleThread]
  /\ held' = [held EXCEPT ![h] = out]
  /\ last' = [last EXCEPT ![h] = l]

Summary(t) == [op |-> t.op, timed_out |-> t.timed_out, rejected |-> FALSE, elem |-> ""]

\* the future that the callback of _run_mr_task settles, with a defect: one future
\* kept by the Context, the first one made, instead of the call's own
callback_future_shared(nid) == 0

\* the callback that _run_mr_task registers closes over the future made in the
\* same call: the future kept under the call's own callback id
callback_future(nid) == nid

\* storing a continuation, with a defect: the id is drawn but nothing is stored
\* by the time the engine is called
store_callback_skipped(acb, id, cb) == acb

\* "self._active_callbacks[callback_id] = ...", the statement of _run_mr_task and
\* of _make_js_callback that precedes their call into the engine
store_callback(acb, id, cb) == With(acb, id, cb)

\* _run_mr_task up to the yield, and the caller's future.get up to its wait:
\* a new future, its callback registered under the next id, the task started with
\* that id.  rec is the caller's frame; acb, fut, inv, tsk, nid are the tables and
\* the id counter as the step's earlier statements left them.
RunMrTask_start(h, rec, kind, p, att, acb, fut, inv, tsk, nid) ==
  /\ active_callbacks' = store_callback(acb, nid, [kind |-> "task", mode |-> "sync",
                                                   fut |-> callback_future(nid)])
  /\ next_callback_id' = nid + 1
  /\ future' = With(fut, nid, NewFuture)
  /\ invoked' = With(inv, nid, 0)
  /\ task' = With(tsk, nid, [st |-> "running", kind |-> kind, p |-> p, att |-> att,
                             cancels |-> 0, res |-> NoId])
  /\ th' = [th EXCEPT ![h] = [rec EXCEPT !.pc = "wait", !.stage = kind, !.cb = nid,
                                         !.outcome = None, !.timed_out = FALSE]]

\* _Context.evaluate(code, timeout_sec): the code string becomes a wire value,
\* mr_eval is started
evaluate_task(h, timeout) ==
  /\ ops_started < MaxOps
  /\ LET a == AllocWrap(Tables, NewInfo(str_utf8, "", "", FALSE))
         rec == [IdleThread EXCEPT !.op = "evaluate", !.timeout = timeout,
                                   !.code = a.hs[1]]
     IN /\ RunMrTask_start(h, rec, "eval", "", NoId, active_callbacks, future, invoked,
                           task, next_callback_id)
        /\ ops_started' = ops_started + 1
        /\ UNCHANGED <<held, last, cleanups, loop_calls, pop_missing, promiseVars>>
        /\ UNCHANGED auxVars
        /\ Sweep({a.hs[1]}, a.vals, a.info)

\* _Context.evaluate called by a thread that is in no other call
evaluate(h, timeout) ==
  /\ th[h].pc = "idle"
  /\ evaluate_task(h, timeout)

\* _Context.heap_stats / heap_snapshot: mr_heap_stats is started, no timeout
heap_stats(h) ==
  /\ th[h].pc = "idle"
  /\ ops_started < MaxOps
  /\ RunMrTask_start(h, [IdleThread EXCEPT !.op = "heap_stats"], "heap", "", NoId,
                     active_callbacks, future, invoked, task, next_callback_id)
  /\ ops_started' = ops_started + 1
  /\ UNCHANGED <<held, last, cleanups, loop_calls, pop_missing, promiseVars, values,
                 rawinfo, free_errors, auxVars>>

\* _Context.call_function(func, timeout_sec=...) up to the wait of its
\* evaluate("[]"), which makes the argument array
call_function(h, timeout) ==
  /\ th[h].pc = "idle"
  /\ ops_started < MaxOps
  /\ held[h].k = "proxy" /\ held[h].cls = "JSFunction"
  /\ LET a == AllocWrap(Tables, NewInfo(str_utf8, "", "", FALSE))
         rec == [IdleThread EXCEPT !.op = "call_function", !.timeout = timeout,
                                   !.code = a.hs[1]]
     IN /\ RunMrTask_start(h, rec, "argv", "", NoId, active_callbacks, future, invoked,
                           task, next_callback_id)
        /\ ops_started' = ops_started + 1
        /\ UNCHANGED <<held, last, cleanups, loop_calls, pop_missing, promiseVars>>
        /\ UNCHANGED auxVars
        /\ Sweep({a.hs[1]}, a.vals, a.info)

\* _SyncFuture.get, with a defect: the wait never gives up
get_never_times_out(timeout) == FALSE

\* _SyncFuture.get(timeout): cv.wait(timeout) can return False, and the get raise
\* JSTimeoutException, only when a timeout was given
get_times_out(timeout) == timeout

\* the finally block of _run_mr_task, with a defect: mr_cancel_task is not called
RunMrTask_cancel_skipped(tk) == tk

\* the finally block of _run_mr_task calls mr_cancel_task for its task
RunMrTask_cancel(tk) == CancelTask(tk)

\* the timeout of the caller's future.get applies: evaluate and call_function pass
\* timeout_sec to the get of their own task only
HasTimeout(t) == get_times_out(t.timeout) /\ t.stage \in {"eval", "call"}

\* "with suppress(Exception): future.get()", with a defect: the drained exception
\* replaces what the with-body raised
drain_unsuppressed(outcome, f) == IF f.exc # None THEN f.exc ELSE outcome

\* "with suppress(Exception): future.get()": result and exception of the drained
\* future are dropped, what the with-body returned or raised goes on
drain(outcome, f) == outcome

\* the end of the finally block of _run_mr_task, for the caller's frame t: the
\* drain has returned, the callback entry is popped.  The
\* operation returns to host code, or goes on with its next task:
\* call_function(func) with the call itself; promise.then(...) likewise, after
\* which _attach_callbacks_to_promise returns and the promise's future is awaited.
RunMrTask_finish(h, t) ==
  LET id == t.cb
      out == drain(t.outcome, future[id])
      acb == Without(active_callbacks, {id})
      fut == Without(future, {id})
      inv == Without(invoked, {id})
      \* the engine forgets a finished task; one still running stays in flight
      tsk == IF task[id].st = "done" THEN Without(task, {id}) ELSE task
      \* call_function encodes func, this and argv: func and argv are proxies, whose
      \* handles are sent back; this is JSUndefined for a call of a JSFunction (a
      \* new wire value) and the promise itself for promise.then
      a == IF t.stage = "argv" /\ out.k = "proxy" /\ t.op = "call_function"
           THEN AllocWrap(Tables, NewInfo(undefined, "", "", FALSE))
           ELSE Tables
  IN
  /\ pop_missing' = pop_missing + (IF id \in DOMAIN active_callbacks THEN 0 ELSE 1)
  /\ IF t.stage = "argv" /\ out.k = "proxy"
     THEN /\ RunMrTask_start(h, [t EXCEPT !.code = NoHandle,
                                          !.locals = @ \cup {out.h} \cup Range(a.hs)],
                             IF t.op = "call_function" THEN "call" ELSE "then",
                             IF t.op = "call_function" THEN "" ELSE rawinfo[held[h].raw].p,
                             t.att, acb, fut, inv, tsk, next_callback_id)
          /\ UNCHANGED <<held, last>>
     ELSE /\ active_callbacks' = acb
          /\ future' = fut
          /\ invoked' = inv
          /\ task' = tsk
          /\ UNCHANGED next_callback_id
          /\ IF t.stage = "then" /\ out.k # "exc"
             THEN /\ th' = [th EXCEPT ![h] = [t EXCEPT !.pc = IF t.op = "await" THEN "await"
                                                                 ELSE "wait",
                                                       !.stage = "promise", !.cb = NoId,
                                                       !.outcome = None, !.locals = {}]]
                  /\ UNCHANGED <<held, last>>
             ELSE Finish(h, out, Summary(t))
  /\ UNCHANGED <<ops_started, cleanups, loop_calls, promiseVars>>
  /\ UNCHANGED auxVars
  /\ Sweep(Range(a.hs), a.vals, a.info)

\* _SyncFuture.get, with a defect: it returns without waiting for the future
get_returns_unsettled(f) == TRUE

\* _SyncFuture.get returns or raises what the future holds only once it is settled
\* ("while not self._settled: wait")
get_returns(f) == f.settled

\* the caller's future.get(timeout) ends and the finally block of _run_mr_task
\* begins.  With the future settled the get returns the result or raises the
\* exception; when cv.wait timed out it raises JSTimeoutException.  Either way the
\* finally block calls mr_cancel_task for the task (the engine ignores it when the
\* task is done) and then waits in its drain.
RunMrTask_get(h) ==
  /\ th[h].pc = "wait"
  /\ th[h].stage \in {"eval", "heap", "argv", "call", "then"}
  /\ \E expired \in BOOLEAN :
       /\ IF expired THEN HasTimeout(th[h]) ELSE get_returns(future[th[h].cb])
       /\ th' = [th EXCEPT ![h].pc = "drain",
                           ![h].outcome = IF expired THEN JSTimeoutException
                                          ELSE get_settled(future[th[h].cb]),
                           ![h].timed_out = expired]
  /\ task' = [task EXCEPT ![th[h].cb] = RunMrTask_cancel(@)]
  /\ UNCHANGED <<held, last, ops_started, cbVars, future, loop_calls, invoked,
                 pop_missing, promiseVars>>
  /\ UNCHANGED auxVars
  /\ Sweep({}, values, rawinfo)

\* the drain ("with suppress(Exception): future.get()") returns once the future is
\* settled: at once for a caller that got the result, by the late result or by the
\* terminated error for one that timed out; the finally block ends
RunMrTask_exit(h) ==
  /\ th[h].pc = "drain"
  /\ get_returns(future[th[h].cb])
  /\ RunMrTask_finish(h, th[h])

(***************************************************************************)
(* The promise adapter.                                                    *)
(***************************************************************************)
\* _attach_callbacks_to_promise(promise, future_caller) up to the wait of the
\* evaluate("[]") that then_func(...) starts: two _make_js_callback calls (ids
\* att and att + 1, their JS functions, both cleanups in the shared list), the
\* "then" string, then_func read from the promise.  mode tells future_caller.
AttachCallbacks(h, op, mode, timeout) ==
  LET att == next_callback_id
      a1 == AllocWrap(Tables, NewInfo(function, "", "", FALSE))
      a2 == AllocWrap(a1, NewInfo(function, "", "", FALSE))
      a3 == AllocWrap(a2, NewInfo(str_utf8, "", "", FALSE))
      a4 == AllocWrap(a3, NewInfo(function, "", "", FALSE))
      a5 == AllocWrap(a4, NewInfo(str_utf8, "", "", FALSE))
      rec == [IdleThread EXCEPT !.op = op, !.timeout = timeout, !.att = att,
                                !.rej = att + 1, !.code = a5.hs[5],
                                !.locals = {a5.hs[i] : i \in 1 .. 4}]
      acb == store_callback(
               store_callback(active_callbacks, att,
                              [kind |-> "resolved", fut |-> att, mode |-> mode]),
               att + 1, [kind |-> "rejected", fut |-> att, mode |-> mode])
      inv == (att :> 0) @@ ((att + 1) :> 0) @@ invoked
  IN
  /\ th[h].pc = "idle"
  /\ ops_started < MaxOps
  /\ held[h].k = "proxy" /\ held[h].cls = "JSPromise"
  /\ cleanups' = With(cleanups, att, {att, att + 1})
  /\ RunMrTask_start(h, rec, "argv", "", att, acb, With(future, att, NewFuture), inv,
                     task, att + 2)
  /\ ops_started' = ops_started + 1
  /\ UNCHANGED <<held, last, loop_calls, pop_missing, promiseVars>>
  /\ UNCHANGED auxVars
  /\ Sweep(Range(a5.hs), a5.vals, a5.info)

\* _Context.get_from_promise(promise, timeout): a _SyncFuture, future_caller sets it
get_from_promise(h, timeout) == AttachCallbacks(h, "get", "sync", timeout)

\* _Context.await_promise(promise): an asyncio future, future_caller schedules its
\* set_result on the loop
await_promise(h) == AttachCallbacks(h, "await", "async", FALSE)

\* _get_exception_msg, with a defect: the stack is never looked up
get_exception_msg_str(reason, has_stack) == "str"

\* _get_exception_msg(reason): reason["stack"] when reason is a JSMappedObject that
\* has it, else str(reason)
get_exception_msg(reason, has_stack) ==
  IF ~(reason.k = "proxy" /\ reason.cls \in JSMappedObjectClasses) THEN "str"
  ELSE IF has_stack THEN "stack"
  ELSE "str"

\* JSPromiseError(reason): the message, and the reason kept as .reason
JSPromiseError(reason, has_stack) ==
  PyVal("exc", "JSPromiseError", reason.raw, reason.h, get_exception_msg(reason, has_stack))

\* _unpack_promise_results([is_rejected, argv]) where result is argv[0]
unpack_promise_results(is_rejected, result, has_stack) ==
  IF is_rejected THEN JSPromiseError(result, has_stack) ELSE result

\* the tail of get_from_promise / await_promise once the future is settled:
\* argv[0] is read from the engine and unpacked; the call returns or raises
PromiseReturn(h) ==
  LET t == th[h]
      f == future[t.att]
      e == ElemInfo(rawinfo[f.res.raw].elem)
      a == AllocWrap(Tables, NewInfo(e.typ, "", "", e.stack))
      p == rawinfo[held[h].raw].p
      out == unpack_promise_results(f.is_rejected, to_python(e.typ, a.hs[1]), e.stack)
  IN /\ Finish(h, out, [op |-> t.op, timed_out |-> FALSE,
                        rejected |-> (pstate[p].st = "rejected"), elem |-> pstate[p].val])
     /\ future' = Without(future, {t.att})
     /\ invoked' = Without(invoked, {t.att, t.rej})
     /\ UNCHANGED <<ops_started, cbVars, loop_calls, pop_missing, task, promiseVars>>
     /\ UNCHANGED auxVars
     /\ Sweep({a.hs[1]}, a.vals, a.info)

\* future.get(timeout=timeout) of get_from_promise ends: with the pair when the
\* future is settled, with JSTimeoutException when cv.wait timed out.  Nothing
\* is cancelled or unregistered on timeout.
PromiseGet(h) ==
  /\ th[h].pc = "wait"
  /\ th[h].stage = "promise"
  /\ \/ /\ future[th[h].att].settled
        /\ PromiseReturn(h)
     \/ /\ get_times_out(th[h].timeout)
        /\ Finish(h, JSTimeoutException,
                  [op |-> "get", timed_out |-> TRUE, rejected |-> FALSE, elem |-> ""])
        /\ future' = IF future[th[h].att].settled THEN Without(future, {th[h].att})
                     ELSE future
        /\ invoked' = Without(invoked, {th[h].att, th[h].rej})
        /\ UNCHANGED <<ops_started, cbVars, loop_calls, pop_missing, task, promiseVars>>
        /\ UNCHANGED auxVars
        /\ Sweep({}, values, rawinfo)

\* the call await_promise's future_caller schedules, with a defect: only argv of
\* the pair reaches the future, the flag is lost
scheduled_set_result_unflagged(f, c) == set_result(f, c.val)

\* what loop.call_soon_threadsafe(future.set_result, value) makes the loop run:
\* future.set_result(value), value being the pair [is_rejected, argv]
scheduled_set_result(f, c) == [set_result(f, c.val) EXCEPT !.is_rejected = c.is_rejected]

\* the event loop runs a scheduled future.set_result(value)
LoopRun(c) ==
  /\ c \in loop_calls
  /\ loop_calls' = loop_calls \ {c}
  /\ future' = [future EXCEPT ![c.fut] = scheduled_set_result(@, c)]
  /\ UNCHANGED <<hostVars, cbVars, invoked, pop_missing, task, promiseVars>>
  /\ UNCHANGED auxVars
  /\ Sweep({}, values, rawinfo)

\* "results = await future" of await_promise resumes
AwaitResume(h) ==
  /\ th[h].pc = "await"
  /\ future[th[h].att].settled
  /\ PromiseReturn(h)

(***************************************************************************)
(* Other host operations.                                                  *)
(***************************************************************************)
\* _Context.get_object_item(obj, key) on a proxy the host holds: the key becomes a
\* wire value, the engine returns the item (or the key error, or a value of a tag
\* to_python does not know), which is wrapped and converted by to_python_or_raise
get_object_item(h, typ) ==
  /\ th[h].pc = "idle"
  /\ ops_started < MaxOps
  /\ held[h].k = "proxy" /\ held[h].cls \in JSMappedObjectClasses
  /\ typ \in {object, key_exception, invalid}
  /\ LET a1 == AllocWrap(Tables, NewInfo(str_utf8, "", "", FALSE))
         a2 == AllocWrap(a1, NewInfo(typ, "", "", FALSE))
     IN /\ Finish(h, to_python_or_raise(typ, a2.hs[2]),
                  [op |-> "get_object_item", timed_out |-> FALSE, rejected |-> FALSE,
                   elem |-> ""])
        /\ ops_started' = ops_started + 1
        /\ UNCHANGED <<cbVars, future, loop_calls, invoked, pop_missing, task,
                       promiseVars>>
        /\ UNCHANGED auxVars
        /\ Sweep(Range(a2.hs), a2.vals, a2.info)

\* host code drops the value or exception it kept
drop_held(h) ==
  /\ th[h].pc = "idle"
  /\ held[h] # None
  /\ Finish(h, None, NoLast)
  /\ UNCHANGED <<ops_started, cbVars, future, loop_calls, invoked, pop_missing, task,
                 promiseVars>>
  /\ UNCHANGED auxVars
  /\ Sweep({}, values, rawinfo)

(***************************************************************************)
(* The system.                                                             *)
(***************************************************************************)
HostStart(h) ==
  \/ \E timeout \in BOOLEAN : evaluate(h, timeout)
  \/ heap_stats(h)
  \/ \E timeout \in BOOLEAN : call_function(h, timeout)
  \/ \E timeout \in BOOLEAN : get_from_promise(h, timeout)
  \/ await_promise(h)
  \/ \E typ \in {object, key_exception, invalid} : get_object_item(h, typ)
  \/ drop_held(h)

HostStep(h) ==
  \/ RunMrTask_get(h)
  \/ RunMrTask_exit(h)
  \/ PromiseGet(h)
  \/ AwaitResume(h)

AllTags ==
  {integer, str_utf8, array, function, promise, execute_exception, terminated_exception,
   timeout_exception, oom_exception, invalid}

EngineStep ==
  \/ \E id \in DOMAIN task, typ \in AllTags, p \in Promises \cup {""} :
       EngineDeliver(id, typ, p)
  \/ \E p \in Promises, st \in {"resolved", "rejected"},
        val \in ResolveValues \cup RejectReasons : Settle(p, st, val)
  \/ \E p \in Promises : \E att \in reactions[p] : FireReaction(p, att)

Next ==
  \/ \E h \in Threads : HostStart(h)
  \/ \E h \in Threads : HostStep(h)
  \/ EngineStep
  \/ \E c \in loop_calls : LoopRun(c)

Spec == Init /\ [][Next]_vars

\* the host threads and the event loop are scheduled fairly; nothing is assumed
\* about when, or whether, the engine delivers
FairSpec ==
  /\ Spec
  /\ \A h \in Threads : WF_vars(HostStep(h))
  /\ WF_vars(\E c \in loop_calls : LoopRun(c))

\* some host thread that can take a step does, and the engine is responsive: it
\* finishes tasks it runs (the JS code that settles promises stays unconstrained)
LiveSpec ==
  /\ Spec
  /\ WF_vars(\E h \in Threads : HostStep(h))
  /\ WF_vars(\E id \in DOMAIN task, typ \in AllTags, p \in Promises \cup {""} :
               EngineDeliver(id, typ, p))

(***************************************************************************)
(* Properties.                                                             *)
(***************************************************************************)
AllIdle == \A h \in Threads : th[h].pc = "idle"

\* the stages in which a thread is inside _run_mr_task
InTask(t) == t.pc \in {"wait", "drain"} /\ t.stage # "promise"

\* C1: for every task started through the dispatcher the continuation registered
\* under its callback id is invoked exactly once: never twice, and not zero times
\* once the engine has finished the task and made its one call of mr_callback
C1_ContinuationExactlyOnce ==
  \A id \in DOMAIN task :
    /\ invoked[id] <= 1
    /\ task[id].st = "done" => invoked[id] = 1

\* C2: once no operation is running, the host has dropped every value it kept and
\* the event loop is empty, the engine's value count is zero
C2_NoValuesLeft ==
  (AllIdle /\ (\A h \in Threads : held[h] = None) /\ loop_calls = {}) => values = {}

\* operations ran, created wire values and callbacks, and everything was dropped
C2_Witness ==
  /\ AllIdle
  /\ \A h \in Threads : held[h] = None
  /\ ops_started = MaxOps
  /\ next_callback_id >= 2
  /\ values = {}

\* C3: each live wire value is wrapped by exactly one _ValueHandle, no wire value is
\* freed twice or freed when not live, and none is freed while host code, a frame
\* or a future still references its handle or a proxy sharing that handle
C3_OneHandleFreedOnce ==
  /\ \A r \in values : rawinfo[r].wraps = 1
  /\ free_errors = 0
  /\ {d[1] : d \in Refs} \subseteq values
  /\ HostRaws \subseteq values

\* a proxy obtained from another proxy is held and used: call_function sends back
\* the handle of the JSFunction the host holds while the host still holds it
C3_Witness ==
  \E h \in Threads :
    /\ th[h].op = "call_function"
    /\ th[h].stage = "call"
    /\ held[h].raw \in values
    /\ Cardinality(values) >= 2

\* C4: no pop of a callback id finds the id missing; an entry for a task exists
\* only while its caller is inside _run_mr_task for that id; the two entries of a
\* promise attachment exist together, and only until the promise's reaction ran
C4_EntriesRemovedOnce ==
  /\ pop_missing = 0
  /\ \A id \in DOMAIN active_callbacks :
       LET cb == active_callbacks[id] IN
       IF cb.kind = "task"
       THEN /\ id \in DOMAIN task
            /\ \E h \in Threads : th[h].cb = id /\ InTask(th[h])
       ELSE /\ cb.fut \in DOMAIN cleanups
            /\ cleanups[cb.fut] = {cb.fut, cb.fut + 1}
            /\ cleanups[cb.fut] \subseteq DOMAIN active_callbacks
            /\ \/ \E p \in Promises : cb.fut \in reactions[p]
               \/ \E h \in Threads : th[h].att = cb.fut /\ th[h].stage \in {"argv", "then"}
  /\ \A id \in DOMAIN task : id \in DOMAIN active_callbacks

\* a promise's reaction ran while its caller waits: both entries are gone
C4_Witness ==
  \E h \in Threads :
    /\ th[h].stage = "promise"
    /\ future[th[h].att].settled
    /\ th[h].att \notin DOMAIN active_callbacks
    /\ th[h].rej \notin DOMAIN active_callbacks
    /\ pop_missing = 0

\* C5: when the timeout of an evaluate or a JS function call expires, the caller
\* gets JSTimeoutException ("JavaScript was terminated by timeout"): neither the
\* result nor the terminated error that the cancelled task delivers later
C5_TimeoutWins ==
  \A h \in Threads :
    /\ th[h].timed_out => th[h].outcome = JSTimeoutException
    /\ (last[h].timed_out /\ last[h].op \in {"evaluate", "call_function"})
         => held[h] = JSTimeoutException

\* the caller timed out, the cancelled task has delivered the terminated error
\* into the future being drained
C5_Witness ==
  \E h \in Threads :
    /\ th[h].timed_out
    /\ th[h].pc = "drain"
    /\ future[th[h].cb].settled
    /\ future[th[h].cb].exc.cls = "JSTerminatedException"

\* C6: once the dispatcher has requested the cancellation of a task, the caller
\* blocked in the dispatcher is eventually released (and with it the callback
\* entry), whatever the engine does, even if it never delivers anything
C6_BookkeepingReleased ==
  \A h \in Threads : (th[h].pc = "drain") ~> (th[h].pc # "drain")

\* C7: a blocking get whose timeout expires raises the timeout error and no
\* cancellation of the underlying task is requested, in JSPromise.get as in the
\* wait of evaluate and call_function
C7_TimeoutNeverCancels ==
  \A h \in Threads :
    /\ th[h].timed_out => task[th[h].cb].cancels = 0
    /\ (last[h].timed_out /\ last[h].op = "get") => held[h] = JSTimeoutException

\* C7 as amended: a JSPromise.get whose timeout expires raises the timeout error
\* and leaves tasks, callback entries and promise reactions as they are; a timeout
\* in evaluate or call_function raises the timeout error and the dispatcher then
\* requests the cancellation of the task, once
C7_TimeoutCancelsTasksOnly ==
  [][\A h \in Threads :
       /\ (th[h].stage = "promise" /\ th[h].pc = "wait" /\ last'[h].timed_out
             /\ th'[h].pc = "idle")
            => /\ held'[h] = JSTimeoutException
               /\ task' = task
               /\ active_callbacks' = active_callbacks
               /\ reactions' = reactions
       /\ (~th[h].timed_out /\ th'[h].timed_out)
            => /\ th'[h].outcome = JSTimeoutException
               /\ task[th[h].cb].cancels = 0
               /\ task'[th[h].cb].cancels = 1
       /\ th[h].timed_out => task[th[h].cb].cancels = 1]_vars

\* a JSPromise.get timed out: its two callbacks are still registered and the
\* reaction is still attached to the pending promise
C7_Witness ==
  \E g \in Threads, p \in Promises :
    /\ last[g].op = "get"
    /\ last[g].timed_out
    /\ held[g] = JSTimeoutException
    /\ DOMAIN cleanups # {}
    /\ reactions[p] # {}

\* C8: of the two callbacks of a promise attachment at most one runs, the one for
\* the way the promise settled, and the continuation receives exactly one pair
\* [is_rejected, result array] whose flag says which one ran
C8_OneCallbackFlagMatches ==
  \A h \in Threads :
    th[h].att # NoId =>
      LET a == th[h].att
          r == th[h].rej
          ps == pstate[rawinfo[held[h].raw].p].st
          n == invoked[a] + invoked[r]
      IN /\ n <= 1
         /\ invoked[a] = 1 => ps = "resolved"
         /\ invoked[r] = 1 => ps = "rejected"
         /\ future[a].settled
              => /\ n = 1
                 /\ future[a].is_rejected = (invoked[r] = 1)
                 /\ future[a].res.cls = "JSArray"
         /\ \A c \in loop_calls :
              c.fut = a => /\ n = 1
                           /\ c.is_rejected = (invoked[r] = 1)
                           /\ ~future[a].settled
         /\ Cardinality({c \in loop_calls : c.fut = a}) <= 1

\* a rejected promise's pair has reached the waiting caller's future
C8_Witness ==
  \E h \in Threads :
    /\ th[h].att # NoId
    /\ future[th[h].att].settled
    /\ future[th[h].att].is_rejected
    /\ invoked[th[h].rej] = 1
    /\ invoked[th[h].att] = 0

\* C9: JSPromise.get(timeout=t) returns eventually, and on a promise that has not
\* settled it raises JSTimeoutException: it returns no value and does not block
\* forever
C9_GetTimesOut ==
  /\ [][\A h \in Threads :
          (th[h].op = "get" /\ th'[h].pc = "idle"
             /\ pstate[rawinfo[held[h].raw].p].st = "pending")
            => held'[h] = JSTimeoutException]_vars
  /\ \A h \in Threads : (th[h].op = "get" /\ th[h].timeout) ~> (th[h].pc = "idle")

\* a get with timeout has returned JSTimeoutException while the promise is pending
C9_Witness ==
  \E h \in Threads :
    /\ last[h].op = "get"
    /\ last[h].timed_out
    /\ held[h] = JSTimeoutException
    /\ \A p \in Promises : pstate[p].st = "pending"

\* what get / await must hand back for a promise settled with elem, given the
\* message expected for a rejection
C10_Returned(h, msg) ==
  LET e == ElemInfo(last[h].elem)
      v == held[h]
      same == IF e.typ \in {object, array}
              THEN /\ v.raw \in values
                   /\ rawinfo[v.raw].typ = e.typ
                   /\ rawinfo[v.raw].stack = e.stack
              ELSE v.raw = 0
  IN IF last[h].rejected
     THEN v.k = "exc" /\ v.cls = "JSPromiseError" /\ v.msg = msg /\ same
     ELSE v.k \in {"scalar", "proxy"} /\ same

\* C10: get and await return the first element of the result array of a resolved
\* promise and raise JSPromiseError carrying the reason of a rejected one; the
\* message uses the reason's stack when the reason is an object that has one,
\* its string form otherwise
C10_StackOfAnyObject ==
  \A h \in Threads :
    (last[h].op \in {"get", "await"} /\ ~last[h].timed_out)
      => C10_Returned(h, IF ElemInfo(last[h].elem).stack THEN "stack" ELSE "str")

\* C10 as amended: ... the message uses the reason's stack when the reason is a
\* mapped object (plain object, function or symbol) that has one; the string form
\* otherwise, also for an array that has a stack property
C10_StackOfMappedObject ==
  \A h \in Threads :
    (last[h].op \in {"get", "await"} /\ ~last[h].timed_out)
      => C10_Returned(h, IF ElemInfo(last[h].elem).stack
                            /\ ElemInfo(last[h].elem).typ \in {object, function, symbol}
                         THEN "stack" ELSE "str")

\* a promise rejected with an array that has a stack property: the error carries
\* the array and the message is its string form
C10_Witness ==
  \E h \in Threads :
    /\ last[h].op \in {"get", "await"}
    /\ last[h].rejected
    /\ last[h].elem = "arr_stack"
    /\ held[h].cls = "JSPromiseError"
    /\ held[h].msg = "str"
    /\ held[h].raw \in values

\* what a consumer of a promise sees of the value or exception it got
C11_Outcome(v) ==
  [k |-> v.k, cls |-> v.cls, msg |-> v.msg,
   typ |-> IF v.raw \in values THEN rawinfo[v.raw].typ ELSE invalid]

\* the outcome that the way the promise settled determines, whatever the mode
C11_Expected(rejected, elem) ==
  LET e == ElemInfo(elem)
      result == to_python(e.typ, NoHandle)
      typ == IF result.k = "proxy" THEN e.typ ELSE invalid
  IN IF rejected
     THEN [k |-> "exc", cls |-> "JSPromiseError",
           msg |-> get_exception_msg(result, e.stack), typ |-> typ]
     ELSE [k |-> result.k, cls |-> result.cls, msg |-> "", typ |-> typ]

\* C11: for the same settled promise the blocking get and the await give the same
\* outcome (the same value or the same JSPromiseError), and both register the same
\* two callback entries and remove them when the reaction has run; they differ
\* only in the kind of future that future_caller settles
C11_SameOutcomeSameEntries ==
  /\ \A h \in Threads :
       (last[h].op \in {"get", "await"} /\ ~last[h].timed_out)
         => C11_Outcome(held[h]) = C11_Expected(last[h].rejected, last[h].elem)
  /\ \A h \in Threads :
       th[h].op \in {"get", "await"} =>
         LET a == th[h].att
             mode == IF th[h].op = "get" THEN "sync" ELSE "async"
             ran == invoked[a] + invoked[a + 1] = 1
         IN /\ th[h].rej = a + 1
            /\ ~ran => /\ active_callbacks[a] = [kind |-> "resolved", fut |-> a, mode |-> mode]
                       /\ active_callbacks[a + 1] =
                            [kind |-> "rejected", fut |-> a, mode |-> mode]
                       /\ cleanups[a] = {a, a + 1}
            /\ ran => /\ {a, a + 1} \cap DOMAIN active_callbacks = {}
                      /\ a \notin DOMAIN cleanups

\* an await of a promise rejected with an Error-like object has raised the
\* JSPromiseError that a get raises for it
C11_Witness ==
  \E h \in Threads :
    /\ last[h].op = "await"
    /\ last[h].rejected
    /\ last[h].elem = "obj_stack"
    /\ held[h].cls = "JSPromiseError"
    /\ held[h].msg = "stack"

\* the promise that the proxy held by thread h stands for
C12_Promise(h) == rawinfo[held[h].raw].p

\* C12: in await mode the future is settled only by a call that the callback
\* scheduled on the event loop (the callback never settles it itself), and the
\* thread that runs the coroutine is not blocked while the promise is pending
C12_AwaitNeverBlocks ==
  [][\A h \in Threads :
       th[h].op = "await" =>
         /\ (~future[th[h].att].settled /\ future'[th[h].att].settled)
              => \E c \in loop_calls : c.fut = th[h].att /\ c \notin loop_calls'
         /\ pstate[C12_Promise(h)].st = "pending" => th[h].pc # "wait"]_vars

\* a step in which the engine calls mr_callback: it finishes a task, or runs a
\* promise's reaction
C13_CallbackStep ==
  \/ \E id \in DOMAIN task : task[id].st # "done" /\ task'[id].st = "done"
  \/ \E p \in Promises : reactions'[p] # reactions[p] /\ reactions'[p] \subseteq reactions[p]

\* what the host leaves alone in every callback: no task started or cancelled, no
\* callback made, no value allocated
C13_NoTaskNoAlloc ==
  /\ DOMAIN task' = DOMAIN task
  /\ \A id \in DOMAIN task : task'[id].cancels = task[id].cancels
  /\ next_callback_id' = next_callback_id
  /\ values' \subseteq values \cup {FreeSlot(values)}

\* C13: while mr_callback runs on the engine's thread the host calls no engine
\* entry point from within it: no task is started or cancelled, no value is
\* allocated and none is freed (the delivered wire value stays allocated)
C13_NoEngineCallInCallback ==
  [][C13_CallbackStep => (C13_NoTaskNoAlloc /\ values' = values \cup {FreeSlot(values)})]_vars

\* C13 as amended: from within mr_callback the host starts and cancels no task and
\* allocates nothing; the one engine entry point it calls is mr_free_value, for
\* the wire value just delivered and only when nothing kept the handle (the
\* decoded value is a scalar or an error, the decoding raised, or no continuation
\* took it)
C13_OnlyFreesDeliveredValue ==
  [][C13_CallbackStep =>
       /\ C13_NoTaskNoAlloc
       /\ values \subseteq values'
       /\ (FreeSlot(values) \in values') = (\E d \in Refs' : d[1] = FreeSlot(values))]_vars

\* a task has delivered a number: the continuation ran, and the wire value was
\* freed before the callback returned
C13_Witness ==
  \E id \in DOMAIN task :
    /\ task[id].st = "done"
    /\ task[id].kind = "eval"
    /\ invoked[id] = 1
    /\ future[id].settled
    /\ future[id].res.k = "scalar"
    /\ \E h \in Threads : th[h].cb = id /\ values = {th[h].code[1]}

\* C14: whatever the interleaving of the host threads that use the Context, at
\* most one of them at a time is inside an engine-entering call (evaluate, call,
\* heap statistics, the calls made to attach to a promise)
C14_OneThreadInEngine == Cardinality({h \in Threads : InTask(th[h])}) <= 1

(***************************************************************************)
(* init_mini_racer: the one-time initialisation of the library, in a       *)
(* process that starts with nothing initialised.                           *)
(***************************************************************************)
\* init_mini_racer calls (and Context constructions) made in one run
MaxInitCalls == 3

\* "with _init_lock", with a defect: the body is entered without the lock
lock_ignored(l) == TRUE

\* threading.Lock: acquire goes through only when no thread holds the lock
lock_free(l) == l = ""

\* the with statement is left: the lock is released by the thread that holds it
lock_release(l, h) == IF l = h THEN "" ELSE l

\* a fresh process: _dll_handle is None, the lock is free
LibInit ==
  /\ dll_handle = 0
  /\ init_lock = ""
  /\ v8_inits = 0
  /\ init_call = [h \in Threads |-> NoInitCall]
  /\ init_calls = 0

\* thread h calls init_mini_racer(ignore_duplicate_init=ignore) and arrives at
\* "with _init_lock".  Constructing a MiniRacer / _Context is the call with
\* ignore_duplicate_init=True (_Context.__init__).
init_mini_racer(h, ignore) ==
  /\ init_call[h].pc \in {"idle", "done"}
  /\ init_calls < MaxInitCalls
  /\ init_call' = [init_call EXCEPT ![h] = [NoInitCall EXCEPT !.pc = "lock",
                                                             !.ignore = ignore,
                                                             !.after = (v8_inits > 0)]]
  /\ init_calls' = init_calls + 1
  /\ UNCHANGED <<dll_handle, init_lock, v8_inits>>
  /\ UNCHANGED notLibVars

\* "with _init_lock:" is entered
InitLock_acquire(h) ==
  /\ init_call[h].pc = "lock"
  /\ lock_free(init_lock)
  /\ init_lock' = h
  /\ init_call' = [init_call EXCEPT ![h].pc = "check"]
  /\ UNCHANGED <<dll_handle, v8_inits, init_calls>>
  /\ UNCHANGED notLibVars

\* "if _dll_handle is None: ... elif not ignore_duplicate_init: raise ..."
InitCheck(h) ==
  /\ init_call[h].pc = "check"
  /\ IF dll_handle = 0
     THEN /\ init_call' = [init_call EXCEPT ![h].pc = "open"]
          /\ UNCHANGED init_lock
     ELSE IF ~init_call[h].ignore
     THEN /\ init_call' = [init_call EXCEPT ![h].pc = "done",
                                            ![h].raised = "LibAlreadyInitializedError"]
          /\ init_lock' = lock_release(init_lock, h)
     ELSE /\ init_call' = [init_call EXCEPT ![h].pc = "return"]
          /\ UNCHANGED init_lock
  /\ UNCHANGED <<dll_handle, v8_inits, init_calls>>
  /\ UNCHANGED notLibVars

\* _open_dll(flags).__enter__(): when the library files are found, mr_init_v8
\* runs and the new handle is stored in _dll_handle; else LibNotFoundError
open_dll(h, found) ==
  /\ init_call[h].pc = "open"
  /\ IF found
     THEN /\ v8_inits' = v8_inits + 1
          /\ dll_handle' = v8_inits + 1
          /\ init_call' = [init_call EXCEPT ![h].pc = "return"]
          /\ UNCHANGED init_lock
     ELSE /\ init_call' = [init_call EXCEPT ![h].pc = "done", ![h].raised = "LibNotFoundError"]
          /\ init_lock' = lock_release(init_lock, h)
          /\ UNCHANGED <<dll_handle, v8_inits>>
  /\ UNCHANGED init_calls
  /\ UNCHANGED notLibVars

\* "return _dll_handle", leaving the with statement
InitReturn(h) ==
  /\ init_call[h].pc = "return"
  /\ init_call' = [init_call EXCEPT ![h].pc = "done", ![h].handle = dll_handle]
  /\ init_lock' = lock_release(init_lock, h)
  /\ UNCHANGED <<dll_handle, v8_inits, init_calls>>
  /\ UNCHANGED notLibVars

LibNext ==
  \/ \E h \in Threads, ignore \in BOOLEAN : init_mini_racer(h, ignore)
  \/ \E h \in Threads : InitLock_acquire(h)
  \/ \E h \in Threads : InitCheck(h)
  \/ \E h \in Threads, found \in BOOLEAN : open_dll(h, found)
  \/ \E h \in Threads : InitReturn(h)

\* nothing else goes on in the process
LibSpecInit == LibInit /\ CtxInit /\ ArrayIdle /\ ConvIdle /\ MemIdle /\ GcIdle /\ BufIdle /\ TimerIdle /\ IdIdle /\ SyncFutureIdle

LibSpec == LibSpecInit /\ [][LibNext]_vars

\* C16: whatever the interleaving of init_mini_racer calls and Context
\* constructions, mr_init_v8 runs at most once in the process; a call made after
\* the engine was initialised raises LibAlreadyInitializedError, unless it passed
\* ignore_duplicate_init, in which case it returns the handle of the first (the
\* only) initialisation
C16_InitAtMostOnce ==
  /\ v8_inits <= 1
  /\ \A h \in Threads :
       init_call[h].pc = "done" =>
         /\ init_call[h].handle \in {0, 1}
         /\ init_call[h].after =>
              IF init_call[h].ignore
              THEN init_call[h].raised = "" /\ init_call[h].handle = 1
              ELSE init_call[h].raised = "LibAlreadyInitializedError"

\* two threads raced: one initialised the engine and got the handle, the other
\* called without the flag before the engine was initialised, and was refused
C16_Witness ==
  \E h, g \in Threads :
    /\ init_call[h].pc = "done" /\ init_call[h].handle = 1 /\ ~init_call[h].after
    /\ init_call[g].pc = "done" /\ init_call[g].raised = "LibAlreadyInitializedError"
    /\ ~init_call[g].after
    /\ v8_inits = 1

(***************************************************************************)
(* JSArray: deletion and insertion through the proxy of one JS array.      *)
(* Elements are numbered in the order they were made, so each is distinct. *)
(***************************************************************************)
\* longest array, and the number of elements made in one run
MaxLen == 3
MaxElems == 4

\* the indices tried: every one in range, and beyond range on both sides
Indices == (0 - MaxLen - 1) .. (MaxLen + 1)

Min(a, b) == IF a < b THEN a ELSE b
Max(a, b) == IF a > b THEN a ELSE b

\* engine: mr_splice_array(arr, index, delete_count, new_val), which is
\* Array.prototype.splice: a negative index counts from the end, the index is
\* clamped to [0, length], the delete count to what is left
mr_splice_array(a, index, delete_count, new_val) ==
  LET n == Len(a)
      start == IF index < 0 THEN Max(n + index, 0) ELSE Min(index, n)
      count == Min(Max(delete_count, 0), n - start)
  IN SubSeq(a, 1, start) \o new_val \o SubSeq(a, start + count + 1, n)

\* JSArray.__len__: the array's length property
len(a) == Len(a)

\* the test of JSArray.__delitem__, with a defect: index len(self) passes
delitem_out_of_range_gt(index, a) == index > len(a) \/ index < 0 - len(a)

\* JSArray.__delitem__: "if index >= len(self) or index < -len(self)"
delitem_out_of_range(index, a) == index >= len(a) \/ index < 0 - len(a)

\* _Context.del_from_array(arr, index)
del_from_array(a, index) == mr_splice_array(a, index, 1, <<>>)

\* _Context.array_insert(arr, index, new_val)
array_insert(a, index, new_val) == mr_splice_array(a, index, 0, <<new_val>>)

\* the engine calls of JSArray.__len__, which is get_object_item(self, "length"):
\* the key is encoded, the item fetched
len_calls == <<"mr_alloc_string_val", "mr_get_object_item">>

\* the engine calls of the test of JSArray.__delitem__: "index >= len(self)", and
\* when that is false "index < -len(self)"
delitem_test_calls(index, a) ==
  IF index >= len(a) THEN len_calls ELSE len_calls \o len_calls

\* "del a[index]"
JSArray_delitem(index) ==
  /\ index \in Indices
  /\ IF delitem_out_of_range(index, js_array)
     THEN /\ array_op' = [array_op EXCEPT !.op = "del", !.index = index, !.before = js_array,
                                          !.raised = "JSArrayIndexError", !.got = 0,
                                          !.calls = delitem_test_calls(index, js_array)]
          /\ UNCHANGED js_array
     ELSE /\ js_array' = del_from_array(js_array, index)
          /\ array_op' = [array_op EXCEPT !.op = "del", !.index = index, !.before = js_array,
                                          !.raised = "", !.got = 0,
                                          !.calls = delitem_test_calls(index, js_array)
                                                    \o <<"mr_splice_array">>]
  /\ UNCHANGED js_props
  /\ UNCHANGED notArrayVars

\* the sequence a without its k-th element (k counted from 1)
C17_Removed(a, k) == [j \in 1 .. (Len(a) - 1) |-> IF j < k THEN a[j] ELSE a[j + 1]]

\* C17: for an array of length n, "del a[i]" raises JSArrayIndexError and leaves
\* the array as it is when i >= n or i < -n; for -n <= i < n it removes exactly the
\* element at the normalised index (i = -1: the last one), the array gets shorter
\* by one and the other elements keep their order
C17_DelRaisesOrRemovesOne ==
  array_op.op = "del" =>
    LET n == Len(array_op.before)
        i == array_op.index
    IN IF i >= n \/ i < 0 - n
       THEN array_op.raised = "JSArrayIndexError" /\ js_array = array_op.before
       ELSE /\ array_op.raised = ""
            /\ Len(js_array) = n - 1
            /\ js_array = C17_Removed(array_op.before, IF i < 0 THEN i + n + 1 ELSE i + 1)

\* "del a[-1]" on an array of three elements removed the last one
C17_Witness ==
  /\ array_op.op = "del"
  /\ array_op.index = 0 - 1
  /\ Len(array_op.before) = 3
  /\ array_op.raised = ""
  /\ js_array = SubSeq(array_op.before, 1, 2)

\* C18: a.insert(i, v) with i beyond the bounds of the array (i > n or i < -n for
\* length n) is reported as an out-of-range error on the host side and leaves the
\* array unchanged
C18_InsertOutOfRangeRaises ==
  array_op.op = "insert" =>
    LET n == Len(array_op.before)
        i == array_op.index
    IN (i > n \/ i < 0 - n)
         => array_op.raised = "JSArrayIndexError" /\ js_array = array_op.before

(***************************************************************************)
(* The wire format: _Context._python_to_value_handle (Python value to wire *)
(* value) and _ValueHandle.to_python (wire value to Python value).         *)
(* A Python value is [t, n, s, x, g]: its type, and its number, its string *)
(* or its name (a datetime's zone, an exception's class).  A wire value is *)
(* [tag, num, bytes, len]: num the union's int_val or double_val, bytes    *)
(* its bytes_val.                                                          *)
(* Widths are scaled: an int32 has IntBits bits, a double represents every *)
(* integer up to 2^DoubleBits.  Floats and datetimes are whole numbers     *)
(* (of units, of seconds).                                                 *)
(***************************************************************************)
\* bits of the engine's int32, and the longest string
IntBits == 4
MaxStrLen == 2

\* 2**31 in "obj - 2**31 <= obj < 2**31"
IntLimit == 2 ^ (IntBits - 1)

\* c_double: integers up to 2^DoubleBits (2^53) are exact
DoubleBits == IntBits + 2
DoubleExact == 2 ^ DoubleBits

\* c_int64, twice as wide as the int32
Int64Limit == 2 ^ (2 * IntBits - 1)

\* ctypes c_int64(x): no overflow check, the value wraps
c_int64(x) == ((x + Int64Limit) % (2 * Int64Limit)) - Int64Limit

\* ctypes c_double(x) for an integer x: the nearest double, ties to even
c_double(x) ==
  IF x <= DoubleExact /\ 0 - x <= DoubleExact THEN x
  ELSE IF x % 2 = 0 THEN x
  ELSE IF ((x - 1) \div 2) % 2 = 0 THEN x - 1
  ELSE x + 1

\* code points used in strings: NUL, "a", Greek capital delta, the euro sign
Chars == {0, 97, 916, 8364}

\* str.encode("utf-8") of one code point
utf8_char(c) ==
  IF c < 128 THEN <<c>>
  ELSE IF c < 2048 THEN <<192 + (c \div 64), 128 + (c % 64)>>
  ELSE <<224 + (c \div 4096), 128 + ((c \div 64) % 64), 128 + (c % 64)>>

\* str.encode("utf-8")
RECURSIVE utf8_encode(_)
utf8_encode(str) == IF str = <<>> THEN <<>> ELSE utf8_char(Head(str)) \o utf8_encode(Tail(str))

\* bytes.decode("utf-8")
RECURSIVE utf8_decode(_)
utf8_decode(b) ==
  IF b = <<>> THEN <<>>
  ELSE IF b[1] < 128 THEN <<b[1]>> \o utf8_decode(Tail(b))
  ELSE IF b[1] < 224
  THEN <<(b[1] - 192) * 64 + (b[2] - 128)>> \o utf8_decode(SubSeq(b, 3, Len(b)))
  ELSE <<(b[1] - 224) * 4096 + (b[2] - 128) * 64 + (b[3] - 128)>>
       \o utf8_decode(SubSeq(b, 4, Len(b)))

\* the length passed with the bytes, with a defect: the C string length, which
\* ends at the first NUL byte
alloc_string_strlen(b) ==
  IF \E i \in DOMAIN b : b[i] = 0 THEN (CHOOSE i \in DOMAIN b : b[i] = 0 /\ \A j \in 1 .. (i - 1) : b[j] # 0) - 1
  ELSE Len(b)

\* mr_alloc_string_val(ctx, b, len(b), tag): the length passed with the bytes
alloc_string_len(b) == Len(b)

\* the wire value of a number, and of a string or an error message
Num(tag, n) == [tag |-> tag, num |-> n, bytes |-> <<>>, len |-> 0]
Bytes(tag, b, n) == [tag |-> tag, num |-> 0, bytes |-> b, len |-> n]

\* Python values
Py(t, n) == [NoValue EXCEPT !.t = t, !.n = n]
PyStr(str) == [NoValue EXCEPT !.t = "str", !.s = str]
PyDatetime(sec, tz) == [NoValue EXCEPT !.t = "datetime", !.n = sec, !.x = tz]
PyNamed(t, cls) == [NoValue EXCEPT !.t = t, !.x = cls]

\* datetime.timestamp(): seconds since the epoch; a naive datetime is taken as
\* local time, off being the local zone's offset from UTC
timestamp(d, off) == IF d.x = "naive" THEN d.n - off ELSE d.n

\* offsets from UTC of the zones the process may run in
LocalOffsets == {0, 1}

\* the classes of handle-backed proxies: JSObject and the classes derived from it
JSObjectClasses ==
  {"JSObject", "JSMappedObject", "JSArray", "JSFunction", "JSSymbol", "JSPromise"}

\* the proxy test, with a defect: only JSObject itself passes (type(obj) is JSObject)
isinstance_JSObject_exact(obj) == obj.t = "JSObject"

\* isinstance(obj, JSObject)
isinstance_JSObject(obj) == obj.t \in JSObjectClasses

\* _Context._python_to_value_handle(obj).  The result is [raised, wire, handle]:
\* wire is the wire value allocated for obj (mr_alloc_*), NoWire when none is;
\* handle is the existing _ValueHandle returned (obj._handle, held in n), 0 when
\* the handle returned is a new one wrapping wire.
python_to_value_handle(obj, off) ==
  LET wire(w) == [raised |-> "", wire |-> w, handle |-> 0] IN
  IF isinstance_JSObject(obj) THEN [raised |-> "", wire |-> NoWire, handle |-> obj.n]
  ELSE IF obj.t = "NoneType" THEN wire(Num(null, 0))
  ELSE IF obj.t = "JSUndefined" THEN wire(Num(undefined, 0))
  ELSE IF obj.t = "bool" THEN wire(Num(bool, IF obj.n = 1 THEN 1 ELSE 0))
  ELSE IF obj.t = "int"
  THEN IF obj.n - IntLimit <= obj.n /\ obj.n < IntLimit
       THEN wire(Num(integer, c_int64(obj.n)))
       ELSE wire(Num(double, c_double(obj.n)))
  ELSE IF obj.t = "float" THEN wire(Num(double, obj.n))
  ELSE IF obj.t = "str"
  THEN LET b == utf8_encode(obj.s) IN wire(Bytes(str_utf8, b, alloc_string_len(b)))
  ELSE IF obj.t = "datetime" THEN wire(Num(date, timestamp(obj, off) * 1000))
  ELSE [raised |-> "JSConversionException", wire |-> NoWire, handle |-> 0]

\* _ERRORS: error tag -> generic message
GENERIC_MSG ==
  (parse_exception :> "Unknown JavaScript error during parse") @@
  (execute_exception :> "Uknown JavaScript error during execution") @@
  (oom_exception :> "JavaScript memory limit reached") @@
  (terminated_exception :> "JavaScript was terminated") @@
  (key_exception :> "No such key found in object") @@
  (value_exception :> "Bad value passed to JavaScript engine")

\* klass(msg): msg is the decoded payload (held in s), or the generic message
\* (held in g)
PyExc(cls, text, generic) == [NoValue EXCEPT !.t = "exc", !.s = text, !.x = cls, !.g = generic]

\* _ValueHandle.to_python with the contents of the wire value: what the decoder
\* returns for w (an exception object for an error tag), or raises
to_python_value(w) ==
  IF w.tag \in DOMAIN ERRORS
  THEN LET msg == utf8_decode(SubSeq(w.bytes, 1, w.len))
       IN IF msg = <<>> THEN PyExc(ERRORS[w.tag], <<>>, GENERIC_MSG[w.tag])
          ELSE PyExc(ERRORS[w.tag], msg, "")
  ELSE IF w.tag = null THEN Py("NoneType", 0)
  ELSE IF w.tag = undefined THEN Py("JSUndefined", 0)
  ELSE IF w.tag = bool THEN Py("bool", IF w.num = 1 THEN 1 ELSE 0)
  ELSE IF w.tag = integer THEN Py("int", w.num)
  ELSE IF w.tag = double THEN Py("float", w.num)
  ELSE IF w.tag = str_utf8 THEN PyStr(utf8_decode(SubSeq(w.bytes, 1, w.len)))
  ELSE IF w.tag = date THEN PyDatetime(w.num \div 1000, "utc")
  ELSE IF w.tag \in {function, symbol, shared_array_buffer, array_buffer, promise, array,
                     object}
  THEN PyNamed("proxy", to_python(w.tag, NoHandle).cls)
  ELSE PyNamed("raise", "JSConversionException")

\* strings of up to n code points
RECURSIVE Strings(_)
Strings(n) ==
  IF n = 0 THEN {<<>>}
  ELSE Strings(n - 1) \cup {Append(str, c) : str \in Strings(n - 1), c \in Chars}

\* the _ValueHandles that proxies hold (named by number)
ProxyHandles == {1, 2}

\* Python types _python_to_value_handle has no case for
UnsupportedTypes == {"list", "dict", "memoryview"}

\* the Python values handed to the encoder
PyInputs ==
  {Py("NoneType", 0), Py("JSUndefined", 0)}
  \cup {Py(t, 0) : t \in UnsupportedTypes}
  \cup {Py(cls, hd) : cls \in JSObjectClasses, hd \in ProxyHandles}
  \cup {Py("bool", b) : b \in {0, 1}}
  \cup {Py("int", x) : x \in (0 - DoubleExact - 1) .. (DoubleExact + 1)}
  \cup {Py("float", x) : x \in {0 - IntLimit - 1, 0 - 1, 0, 1, IntLimit}}
  \cup {PyStr(str) : str \in Strings(MaxStrLen)}
  \cup {PyDatetime(n, tz) : n \in 1 .. 3, tz \in {"naive", "utc"}}

\* every error tag of _MiniRacerTypes
ErrorTags ==
  {execute_exception, parse_exception, oom_exception, timeout_exception,
   terminated_exception, value_exception, key_exception}

\* wire values that the engine hands to the decoder: errors with and without a
\* message, handles of reference types, a tag the decoder does not know
EngineWires ==
  {Bytes(tag, utf8_encode(msg), Len(utf8_encode(msg))) : tag \in ErrorTags, msg \in {<<>>, <<97>>, <<916>>}}
  \cup {Num(tag, 0) : tag \in {function, symbol, promise, array, object, array_buffer,
                               hash, invalid}}

\* a Python value to send, or a wire value received from the engine; the Context
\* holds the wire values of the proxies made so far
ConvInit ==
  /\ py_result = NoValue
  /\ \E c \in ProxyHandles : encoded = [NoEncoded EXCEPT !.before = c, !.count = c]
  /\ \/ py_obj \in PyInputs /\ wire_val = NoWire
     \/ py_obj = NoValue /\ wire_val \in EngineWires

\* the value is encoded: a wire value allocated for it is one more value of the
\* Context, wrapped by a new _ValueHandle
SendValue(off) ==
  /\ py_obj # NoValue
  /\ wire_val = NoWire
  /\ py_result = NoValue
  /\ encoded.handle = 0
  /\ LET r == python_to_value_handle(py_obj, off)
         made == IF r.wire = NoWire THEN 0 ELSE 1
     IN /\ wire_val' = r.wire
        /\ py_result' = IF r.raised = "" THEN NoValue ELSE PyNamed("raise", r.raised)
        /\ encoded' = [encoded EXCEPT
                         !.count = @ + made,
                         !.handle = IF r.raised # "" THEN 0
                                    ELSE IF made = 1 THEN encoded.count + 1
                                    ELSE r.handle]
  /\ UNCHANGED py_obj
  /\ UNCHANGED notConvVars

\* the wire value is decoded
ReceiveValue ==
  /\ wire_val # NoWire
  /\ py_result = NoValue
  /\ py_result' = to_python_value(wire_val)
  /\ UNCHANGED <<py_obj, wire_val, encoded>>
  /\ UNCHANGED notConvVars

ConvNext ==
  \/ \E off \in LocalOffsets : SendValue(off)
  \/ ReceiveValue

ConvSpecInit == ConvInit /\ CtxInit /\ LibReady /\ ArrayIdle /\ MemIdle /\ GcIdle /\ BufIdle /\ TimerIdle /\ IdIdle /\ SyncFutureIdle

ConvSpec == ConvSpecInit /\ [][ConvNext]_vars

\* the class and generic message that belong to each error tag
C15_Class ==
  (parse_exception :> "JSParseException") @@
  (execute_exception :> "JSEvalException") @@
  (oom_exception :> "JSOOMException") @@
  (timeout_exception :> "JSTimeoutException") @@
  (terminated_exception :> "JSTerminatedException") @@
  (key_exception :> "JSKeyError") @@
  (value_exception :> "JSValueError")

\* C15: for each error tag (parse, execute, out of memory, timeout, terminated,
\* key not found, bad value) decoding a wire value with that tag gives an
\* exception of the corresponding class, which carries the payload message or,
\* when the payload is empty, a generic message; never an ordinary value
C15_ErrorTagsDecodeToClasses ==
  (wire_val.tag \in ErrorTags /\ py_result # NoValue) =>
    /\ py_result.t = "exc"
    /\ py_result.x = C15_Class[wire_val.tag]
    /\ py_result.s = utf8_decode(wire_val.bytes)
    /\ (wire_val.len = 0) = (py_result.g # "")

\* C19: a Python int x is sent with the integer tag if and only if
\* -2^31 <= x < 2^31; an int outside that range, too large or too negative, is
\* sent with the double tag
C19_IntegerTagIffInt32 ==
  (py_obj.t = "int" /\ wire_val # NoWire) =>
    IF 0 - IntLimit <= py_obj.n /\ py_obj.n < IntLimit
    THEN wire_val.tag = integer
    ELSE wire_val.tag = double

\* Python's == on the values of the model: numbers compare by value, datetimes
\* by the instant when both know their zone, and a naive datetime never equals
\* an aware one
C20_Equal(a, b) ==
  IF a.t \in {"int", "float"} /\ b.t \in {"int", "float"} THEN a.n = b.n
  ELSE IF a.t = "datetime" /\ b.t = "datetime"
  THEN (a.x = "naive") = (b.x = "naive") /\ a.n = b.n
  ELSE a = b

\* a value was encoded and the wire value decoded
C20_Converted ==
  py_obj # NoValue /\ py_obj.t \notin UnsupportedTypes /\ py_result # NoValue

C25_Registered ==
  {th[h].cb : h \in {g \in Threads : InTask(th[g])}} \cup UNION Range(cleanups)

\* the engine calls mr_callback with callback id `id` in this step
C25_Delivers(id) ==
  \/ /\ id \in DOMAIN task
     /\ task[id].st # "done"
     /\ id \in DOMAIN task'
     /\ task'[id].st = "done"
  \/ \E p \in Promises : \E att \in reactions[p] \ reactions'[p] :
       id = (IF pstate[p].st = "resolved" THEN att ELSE att + 1)

\* C25: however host threads registering and removing callbacks and the engine
\* delivering completions interleave, every completion delivered for a callback id
\* finds the id in _active_callbacks, and _active_callbacks always holds exactly
\* the ids registered and not yet removed
C25_LookupNeverFails ==
  /\ [](DOMAIN active_callbacks = C25_Registered)
  /\ [][\A id \in 0 .. next_callback_id : C25_Delivers(id) => id \in DOMAIN active_callbacks]_vars

\* two host threads have a task in flight each: one completion was delivered and
\* found its continuation, the other entry is registered and waits for its own
C25_Witness ==
  \E g, h \in Threads :
    /\ g # h
    /\ InTask(th[g]) /\ InTask(th[h])
    /\ task[th[g].cb].st = "done" /\ invoked[th[g].cb] = 1
    /\ task[th[h].cb].st = "running"
    /\ DOMAIN active_callbacks = {th[g].cb, th[h].cb}

\* C24: when a caller stops waiting on its task (with a result, an error or a
\* timeout) the dispatcher requests mr_cancel_task for it, exactly once; it then
\* waits until the task's result has arrived, drops that result, value or error,
\* and only then removes the callback entry; what the caller got when it stopped
\* waiting is what it returns or raises, never the late result
C24_CancelDrainThenPop ==
  [][\A h \in Threads :
       LET id == th[h].cb IN
       /\ (InTask(th[h]) /\ th[h].pc = "wait" /\ th'[h] # th[h])
            => /\ th'[h].pc = "drain"
               /\ task[id].cancels = 0
               /\ task'[id].cancels = 1
               /\ id \in DOMAIN active_callbacks'
       /\ th[h].pc = "drain"
            => /\ task[id].cancels = 1
               /\ id \in DOMAIN active_callbacks
               /\ (th'[h].pc = "drain" /\ th'[h].cb = id)
                    => /\ th'[h].outcome = th[h].outcome
                       /\ task'[id].cancels = 1
                       /\ id \in DOMAIN active_callbacks'
               /\ id \notin DOMAIN active_callbacks'
                    => /\ future[id].settled
                       /\ task[id].st = "done"
                       /\ id \notin DOMAIN future'
                       /\ th'[h].pc = "idle" => held'[h] = th[h].outcome
                       /\ th[h].timed_out
                            => th'[h].pc = "idle" /\ held'[h] = JSTimeoutException]_vars

\* a caller timed out, its cancelled task delivered a value all the same: the
\* value sits in the future being drained, the entry is still registered
C24_Witness ==
  \E h \in Threads :
    /\ th[h].pc = "drain"
    /\ th[h].timed_out
    /\ task[th[h].cb].cancels = 1
    /\ future[th[h].cb].settled
    /\ future[th[h].cb].exc = None
    /\ future[th[h].cb].res # None
    /\ th[h].cb \in DOMAIN active_callbacks

\* the engine entry point that can trigger callback id `id` is invoked in this
\* step: a task is started with it, or the JS shims of an attachment are made
C26_Armed(id) ==
  \/ id \in DOMAIN task' \ DOMAIN task
  \/ \E a \in DOMAIN cleanups' \ DOMAIN cleanups : id \in cleanups'[a]

C27_ResultOf(id, v) == v = to_python(task[id].res, v.h)

\* C27: with several tasks in flight against one Context, started by different
\* host threads and completing in any order, each caller receives the result or
\* error of its own task: callers in flight wait on different ids, a completion
\* settles the future of its own task and no other, and what a caller that did
\* not time out takes from its future and returns is its own task's result
C27_EachCallerItsOwnResult ==
  /\ [](\A g, h \in Threads :
          (g # h /\ InTask(th[g]) /\ InTask(th[h])) => th[g].cb # th[h].cb)
  /\ [](\A h \in Threads :
          LET id == th[h].cb IN
          /\ (InTask(th[h]) /\ future[id].settled)
               => C27_ResultOf(id, get_settled(future[id]))
          /\ (th[h].pc = "drain" /\ ~th[h].timed_out) => C27_ResultOf(id, th[h].outcome))
  /\ [][/\ \A id \in DOMAIN task :
            (task[id].st # "done" /\ id \in DOMAIN task' /\ task'[id].st = "done")
              => \A j \in DOMAIN future \ {id} :
                   j \in DOMAIN future' /\ future'[j] = future[j]
        /\ \A h \in Threads :
            (th[h].pc = "drain" /\ ~th[h].timed_out /\ th'[h].pc = "idle")
              => held'[h] = th[h].outcome]_vars

\* two threads evaluate at once; the task started second completed first, with an
\* error, and its caller took it, while the first caller still waits; nothing has been
\* delivered to the first caller's future
C27_Witness ==
  \E g, h \in Threads :
    /\ g # h
    /\ th[g].stage = "eval" /\ th[h].stage = "eval"
    /\ th[g].cb < th[h].cb
    /\ th[g].pc = "wait" /\ ~future[th[g].cb].settled
    /\ th[h].pc = "drain" /\ ~th[h].timed_out
    /\ th[h].outcome.cls = "JSEvalException"

\* C28: a wire value whose tag is not recognised reaches the caller waiting for it
\* as JSConversionException: what a synchronous engine call raises for it is
\* JSConversionException, and once the engine has delivered such a value as a
\* task's result the future of the task's caller is settled with that error, so
\* that the caller returns with it
C28_UnrecognisedTagReported ==
  /\ \A h \in Threads : held[h].k = "raise" => held[h].cls = "JSConversionException"
  /\ \A id \in DOMAIN task :
       (task[id].st = "done" /\ to_python(task[id].res, NoHandle).k = "raise")
         => /\ future[id].settled
            /\ future[id].exc.cls = "JSConversionException"

\* the tags of the results meant by "a value, or an error of one of its error
\* tags": the value tags of the wire format that stand for a JS value, and every
\* error tag of the wire format
C29_ResultTags ==
  {null, bool, integer, double, str_utf8, array, date, symbol, object, undefined,
   function, shared_array_buffer, array_buffer, promise} \cup ErrorTags

\* C29: when the engine has delivered the one result of a task, a value or an
\* error of one of its error tags, also after a cancel request, the future that
\* the task's caller waits on or drains is settled, so that the evaluate,
\* call_function, heap_stats or heap_snapshot call returns or raises; and once
\* such a call has returned, _active_callbacks holds no entry for its task
C29_DeliveredResultEndsCall ==
  /\ \A id \in DOMAIN task :
       (task[id].st = "done" /\ task[id].res \in C29_ResultTags) => future[id].settled
  /\ \A id \in DOMAIN active_callbacks :
       active_callbacks[id].kind = "task"
         => \E h \in Threads : InTask(th[h]) /\ th[h].cb = id

\* C30: encoding a value that is a handle-backed proxy (JSObject, JSArray,
\* JSFunction, JSSymbol, JSPromise, ...) returns the very handle the proxy holds,
\* allocates no wire value and leaves the Context's value count as it was;
\* encoding a value of an unsupported type raises JSConversionException and
\* allocates nothing either
C30_ProxyHandleReused ==
  /\ (py_obj.t \in JSObjectClasses /\ (encoded.handle # 0 \/ py_result # NoValue))
       => /\ py_result = NoValue
          /\ encoded.handle = py_obj.n
          /\ wire_val = NoWire
          /\ encoded.count = encoded.before
  /\ (py_obj.t \in UnsupportedTypes /\ (encoded.handle # 0 \/ py_result # NoValue))
       => /\ py_result = PyNamed("raise", "JSConversionException")
          /\ encoded.handle = 0
          /\ wire_val = NoWire
          /\ encoded.count = encoded.before

\* a JSArray holding the Context's second handle was encoded: that handle came
\* back, the Context still has its two values
C30_Witness ==
  /\ py_obj = Py("JSArray", 2)
  /\ encoded = [handle |-> 2, before |-> 2, count |-> 2]
  /\ wire_val = NoWire

(***************************************************************************)
(* Memory limits.  Host code sets a soft and a hard limit on the Context   *)
(* (MiniRacer.eval(max_memory=...) sets the hard one) and evaluates.       *)
(***************************************************************************)
\* _Context.set_hard_memory_limit(limit): a limit of 0 removes the limit
set_hard_memory_limit(h, limit) ==
  /\ th[h].pc = "idle"
  /\ mem_limits' = [mem_limits EXCEPT !.hard = limit]
  /\ UNCHANGED notMemVars

\* _Context.set_soft_memory_limit(limit)
set_soft_memory_limit(h, limit) ==
  /\ th[h].pc = "idle"
  /\ mem_limits' = [mem_limits EXCEPT !.soft = limit]
  /\ UNCHANGED notMemVars

\* the limits host code sets: none, and one number of bytes
Limits == {0, 1}

MemNext ==
  \/ \E h \in Threads, limit \in Limits : set_hard_memory_limit(h, limit)
  \/ \E h \in Threads, limit \in Limits : set_soft_memory_limit(h, limit)
  \/ \E h \in Threads, timeout \in BOOLEAN : evaluate(h, timeout)
  \/ \E h \in Threads : RunMrTask_get(h)
  \/ \E h \in Threads : RunMrTask_exit(h)
  \/ \E id \in DOMAIN task, typ \in AllTags, p \in Promises \cup {""} :
       EngineDeliver(id, typ, p)
  \/ \E h \in Threads : drop_held(h)

MemSpec == Init /\ [][MemNext]_vars

JSOOMException == Exc("JSOOMException", "payload")

\* C21: an evaluation ends with JSOOMException only when a hard memory limit is
\* set, never with a soft limit alone; the evaluation that runs when the hard
\* limit is exceeded raises JSOOMException to its caller; and the Context stays
\* usable: when that call has returned _active_callbacks holds no entry for the
\* failed task and the engine no task, so that a later evaluate runs as on a new
\* Context
C21_HardLimitRaisesOOM ==
  /\ [][\A id \in DOMAIN task :
          (task[id].res # oom_exception /\ id \in DOMAIN task'
             /\ task'[id].res = oom_exception)
            => /\ mem_limits.hard # 0
               /\ future'[id].settled
               /\ future'[id].exc = JSOOMException]_vars
  /\ [](\A h \in Threads :
          /\ (th[h].pc = "drain" /\ ~th[h].timed_out)
               => (th[h].outcome = JSOOMException
                     <=> task[th[h].cb].res = oom_exception)
          /\ (th[h].pc = "idle" /\ held[h] = JSOOMException)
               => \A id \in DOMAIN active_callbacks \cup DOMAIN task :
                    \E g \in Threads \ {h} : InTask(th[g]) /\ th[g].cb = id)
  /\ [][\A h \in Threads :
          (th[h].pc = "drain" /\ th[h].outcome = JSOOMException /\ th'[h] # th[h])
            => /\ th'[h].pc = "idle"
               /\ held'[h] = JSOOMException
               /\ th[h].cb \notin DOMAIN active_callbacks' \cup DOMAIN task']_vars

\* an evaluation raised JSOOMException under a hard limit; the same thread
\* evaluated again on the Context and got a value
C21_Witness ==
  \E h \in Threads :
    /\ mem_limits.hard # 0
    /\ held[h] = JSOOMException
    /\ th[h].op = "evaluate"
    /\ th[h].pc = "drain"
    /\ ~th[h].timed_out
    /\ th[h].outcome.k = "scalar"

(***************************************************************************)
(* The life of a MiniRacer instance, its Context and its handles.  The     *)
(* _Context is in a reference cycle with its mr_callback closure, so it is *)
(* finalised by the cyclic collector, once nothing reaches it: the         *)
(* MiniRacer instance, every _ValueHandle (self.ctx) and every frame of a  *)
(* running operation reference it.  A handle is finalised at once when its *)
(* last reference goes, or by the collector when it sits in a cycle of     *)
(* host objects.  The collector finalises unreachable objects in any order.*)
(***************************************************************************)
\* other contexts alive in the process when the instance is made
OtherContexts == {0, 1}

GcInit ==
  /\ mr_ref = "none"
  /\ ctx_state = "none"
  /\ handle_state = [x \in Handles |-> "none"]
  /\ task_running = FALSE
  /\ \E c \in OtherContexts :
       engine_log = [NoEngineLog EXCEPT !.context_count = c, !.before = c]

\* MiniRacer(): _Context.__init__ calls mr_init_context
MiniRacer_init ==
  /\ mr_ref = "none"
  /\ mr_ref' = "held"
  /\ ctx_state' = "live"
  /\ engine_log' = [engine_log EXCEPT !.context_count = @ + 1]
  /\ UNCHANGED <<handle_state, task_running>>
  /\ UNCHANGED notGcVars

\* something reaches the Context: the instance host code holds, a proxy it
\* holds, or the frame of a running operation
CtxReachable ==
  mr_ref = "held" \/ task_running \/ \E x \in Handles : handle_state[x] = "held"

\* a host thread starts an operation on the Context (through the instance, or
\* through a proxy it holds)
operation_start ==
  /\ ctx_state = "live"
  /\ ~task_running
  /\ mr_ref = "held" \/ \E x \in Handles : handle_state[x] = "held"
  /\ task_running' = TRUE
  /\ UNCHANGED <<mr_ref, ctx_state, handle_state, engine_log>>
  /\ UNCHANGED notGcVars

\* the operation returns a value that needs no handle
operation_return ==
  /\ task_running
  /\ task_running' = FALSE
  /\ UNCHANGED <<mr_ref, ctx_state, handle_state, engine_log>>
  /\ UNCHANGED notGcVars

\* the operation returns a proxy, which holds a new _ValueHandle (x)
operation_return_proxy(x) ==
  /\ task_running
  /\ handle_state[x] = "none"
  /\ task_running' = FALSE
  /\ handle_state' = [handle_state EXCEPT ![x] = "held"]
  /\ UNCHANGED <<mr_ref, ctx_state, engine_log>>
  /\ UNCHANGED notGcVars

\* _ValueHandle.__del__ -> _Context.free(raw): "if self._dll: mr_free_value(...)";
\* _dll stays set for the life of the _Context object, so the call is made
\* whether or not mr_free_context was called before
Context_free(log, ctx) ==
  IF ctx = "freed" THEN [log EXCEPT !.late_free_value = @ + 1] ELSE log

\* host code drops the last reference to the proxy of handle x: the handle's
\* reference count falls to zero and __del__ runs at once
drop_proxy(x) ==
  /\ handle_state[x] = "held"
  /\ handle_state' = [handle_state EXCEPT ![x] = "freed"]
  /\ engine_log' = Context_free(engine_log, ctx_state)
  /\ UNCHANGED <<mr_ref, ctx_state, task_running>>
  /\ UNCHANGED notGcVars

\* host code drops a cycle of its objects that holds the proxy of handle x: the
\* handle is unreachable, and is left to the cyclic collector
drop_proxy_in_cycle(x) ==
  /\ handle_state[x] = "held"
  /\ handle_state' = [handle_state EXCEPT ![x] = "garbage"]
  /\ UNCHANGED <<mr_ref, ctx_state, task_running, engine_log>>
  /\ UNCHANGED notGcVars

\* "del mr": host code drops its reference to the MiniRacer instance
drop_mr ==
  /\ mr_ref = "held"
  /\ mr_ref' = "dropped"
  /\ UNCHANGED <<ctx_state, handle_state, task_running, engine_log>>
  /\ UNCHANGED notGcVars

\* the collector finalises the unreachable handle x
finalise_handle(x) ==
  /\ handle_state[x] = "garbage"
  /\ handle_state' = [handle_state EXCEPT ![x] = "freed"]
  /\ engine_log' = Context_free(engine_log, ctx_state)
  /\ UNCHANGED <<mr_ref, ctx_state, task_running>>
  /\ UNCHANGED notGcVars

\* the handles not yet released by mr_free_value
Unreleased == {x \in Handles : handle_state[x] \in {"held", "garbage"}}

\* _Context.__del__, with a defect: mr_free_context is not called
Context_del_skipped(log, unreleased, running) == log

\* _Context.__del__: "if self._dll: mr_free_context(self._ctx)", whatever handles
\* are unreleased; the engine drops the context
Context_del(log, unreleased, running) ==
  [log EXCEPT !.free_context = @ + 1,
              !.context_count = @ - 1,
              !.unreleased = unreleased,
              !.in_flight = IF running THEN 1 ELSE 0]

\* the collector finalises the _Context, which nothing reaches any more
finalise_context ==
  /\ ctx_state = "live"
  /\ mr_ref = "dropped"
  /\ ~CtxReachable
  /\ ctx_state' = "freed"
  /\ engine_log' = Context_del(engine_log, Cardinality(Unreleased), task_running)
  /\ UNCHANGED <<mr_ref, handle_state, task_running>>
  /\ UNCHANGED notGcVars

GcNext ==
  \/ MiniRacer_init
  \/ operation_start
  \/ operation_return
  \/ \E x \in Handles : operation_return_proxy(x)
  \/ \E x \in Handles : drop_proxy(x)
  \/ \E x \in Handles : drop_proxy_in_cycle(x)
  \/ drop_mr
  \/ \E x \in Handles : finalise_handle(x)
  \/ finalise_context

GcSpecInit == GcInit /\ CtxInit /\ LibReady /\ ArrayIdle /\ ConvIdle /\ MemIdle /\ BufIdle /\ TimerIdle /\ IdIdle /\ SyncFutureIdle

GcSpec == GcSpecInit /\ [][GcNext]_vars

\* C22: mr_free_context is issued for a Context only when it has no task in
\* flight and no handle that mr_free_value has not released, and no
\* mr_free_value is issued against the Context after its mr_free_context, in
\* whatever order the collector finalises the Context and its handles
C22_ContextFreedLast ==
  /\ engine_log.in_flight = 0
  /\ engine_log.unreleased = 0
  /\ engine_log.late_free_value = 0

\* a collection cycle has run to its end: the collector has finalised every
\* unreachable handle, and the Context if nothing reaches it
C23_Collected ==
  /\ \A x \in Handles : handle_state[x] # "garbage"
  /\ ~(ctx_state = "live" /\ mr_ref = "dropped" /\ ~CtxReachable)

BufferTags == {shared_array_buffer, array_buffer}

\* to_python, with a defect: the cdata keeps no reference to the handle
save_origin_missing == FALSE

\* to_python: "cdata._origin = self"
save_origin == TRUE

\* _ValueHandle.__del__ -> _Context.free -> mr_free_value, once nothing references
\* the handle
finalise_buffer_handle(rec) ==
  IF ~rec.origin /\ rec.live
  THEN [rec EXCEPT !.live = FALSE, !.frees = @ + 1]
  ELSE rec

\* to_python on a wire value with a buffer tag: the view it returns
to_python_buffer(rec, tag) ==
  [rec EXCEPT !.st = "held", !.tag = tag, !.live = TRUE, !.origin = save_origin,
              !.views = 1, !.peak = 1]

\* the engine returns buffer b as a result: mr_callback wraps the wire value,
\* converts it and hands the view on; its own reference to the handle ends when it
\* returns
buffer_result(b, tag) ==
  /\ buffers[b].st = "none"
  /\ buffers' = [buffers EXCEPT ![b] = finalise_buffer_handle(to_python_buffer(@, tag))]
  /\ UNCHANGED notBufVars

\* host code makes another view of buffer b from one it holds (ret[0:1], cast)
view_copy(b) ==
  /\ buffers[b].st = "held"
  /\ buffers[b].views < MaxViews
  /\ buffers' = [buffers EXCEPT ![b].views = @ + 1,
                                ![b].peak = IF @ < buffers[b].views + 1
                                            THEN buffers[b].views + 1 ELSE @]
  /\ UNCHANGED notBufVars

\* the cdata lost its last view: it is freed, and with it its _origin reference
cdata_freed(rec) == [rec EXCEPT !.st = "dropped", !.origin = FALSE]

\* host code drops one view of buffer b ("del ret")
view_drop(b) ==
  /\ buffers[b].st = "held"
  /\ LET rec == [buffers[b] EXCEPT !.views = @ - 1]
     IN buffers' = [buffers EXCEPT ![b] = IF rec.views = 0
                                         THEN finalise_buffer_handle(cdata_freed(rec))
                                         ELSE rec]
  /\ UNCHANGED notBufVars

BufNext ==
  \/ \E b \in Buffers, tag \in BufferTags : buffer_result(b, tag)
  \/ \E b \in Buffers : view_copy(b)
  \/ \E b \in Buffers : view_drop(b)

BufSpec == Init /\ [][BufNext]_vars

\* C31: the wire value of a buffer result is not released (no mr_free_value call
\* is made for it) while host code holds any memoryview of it, and it has been
\* released, by one call, once the last view was dropped
C31_BufferLivesWithViews ==
  \A b \in Buffers :
    /\ buffers[b].views > 0 => buffers[b].live /\ buffers[b].frees = 0
    /\ buffers[b].st = "dropped" => ~buffers[b].live /\ buffers[b].frees = 1

\* a buffer of which host code held several views has been dropped
C31_Witness ==
  \E b \in Buffers :
    /\ buffers[b].st = "dropped"
    /\ buffers[b].peak > 1
    /\ buffers[b].frees = 1

\* C32: decoding a result that carries an error tag raises the exception class of
\* that tag, and the error's wire value is released by the time the exception is
\* in the caller's hands: a finished task that delivered an error tag has its
\* exception set in the caller's future, and an exception host code holds
\* references no wire value that is still allocated
C32_ErrorDecodedAndReleased ==
  /\ \A id \in DOMAIN task :
       (task[id].st = "done" /\ task[id].res \in ErrorTags /\ id \in DOMAIN future) =>
         /\ future[id].exc.k = "exc"
         /\ future[id].exc.cls = ERRORS[task[id].res]
  /\ \A h \in Threads :
       (th[h].pc = "idle" /\ held[h].k = "exc") => held[h].h[1] \notin values

(***************************************************************************)
(* JSArray: insertion, reading and assignment.                             *)
(***************************************************************************)
\* a.insert(index, new_obj), new_obj a value not yet in the array or a value of a
\* type that cannot be encoded: array_insert encodes new_obj, then splices
JSArray_insert(index, obj) ==
  /\ index \in Indices
  /\ array_op.made < MaxElems
  /\ len(js_array) < MaxLen
  /\ LET r == python_to_value_handle(obj, 0)
     IN IF r.raised # ""
        THEN /\ array_op' = [array_op EXCEPT !.op = "insert", !.index = index,
                                             !.before = js_array, !.raised = r.raised,
                                             !.calls = <<>>, !.got = 0]
             /\ UNCHANGED js_array
        ELSE /\ js_array' = array_insert(js_array, index, obj.n)
             /\ array_op' = [op |-> "insert", index |-> index, before |-> js_array,
                             raised |-> "", made |-> array_op.made + 1,
                             calls |-> <<"mr_alloc_int_val", "mr_splice_array">>,
                             got |-> 0]
  /\ UNCHANGED js_props
  /\ UNCHANGED notArrayVars

\* JSArray.__getitem__: "if index < 0: index += len(self)"
getitem_index(index, a) == IF index < 0 THEN index + len(a) ELSE index

\* the test of JSArray.__getitem__, with a defect: index len(self) passes
getitem_in_range_le(i, a) == 0 <= i /\ i <= len(a)

\* JSArray.__getitem__: "if 0 <= index < len(self)"
getitem_in_range(i, a) == 0 <= i /\ i < len(a)

\* the engine calls of the normalisation and the test: len(self) for a negative
\* index, and len(self) again once "0 <= index" holds
getitem_test_calls(index, a) ==
  (IF index < 0 THEN len_calls ELSE <<>>)
  \o (IF 0 <= getitem_index(index, a) THEN len_calls ELSE <<>>)

\* engine: mr_get_object_item(arr, i), which is arr[i]: undefined (0) beyond the end
mr_get_object_item(a, i) == IF i < Len(a) THEN a[i + 1] ELSE 0

\* "a[index]"
JSArray_getitem(index) ==
  /\ index \in Indices
  /\ LET i == getitem_index(index, js_array)
         test == getitem_test_calls(index, js_array)
     IN IF getitem_in_range(i, js_array)
        THEN array_op' = [array_op EXCEPT
                            !.op = "get", !.index = index, !.before = js_array,
                            !.raised = "", !.got = mr_get_object_item(js_array, i),
                            !.calls = test \o <<"mr_alloc_int_val", "mr_get_object_item">>]
        ELSE array_op' = [array_op EXCEPT
                            !.op = "get", !.index = index, !.before = js_array,
                            !.raised = "IndexError", !.got = 0, !.calls = test]
  /\ UNCHANGED <<js_array, js_props>>
  /\ UNCHANGED notArrayVars

\* engine: mr_set_object_item(arr, key, val), which is arr[key] = val: an index
\* inside the array replaces the element, one beyond the end extends the array
\* with holes up to it, a negative key becomes a property and leaves the elements
mr_set_object_item(a, key, val) ==
  IF key < 0 THEN a
  ELSE [j \in 1 .. (IF key < Len(a) THEN Len(a) ELSE key + 1) |->
          IF j = key + 1 THEN val ELSE IF j <= Len(a) THEN a[j] ELSE 0]

\* "a[index] = val", val a value not yet in the array: JSArray.__setitem__ hands
\* the index as it is to _Context.set_object_item
JSArray_setitem(index) ==
  /\ index \in Indices
  /\ index < MaxLen
  /\ array_op.made < MaxElems
  /\ js_array' = mr_set_object_item(js_array, index, array_op.made + 1)
  /\ js_props' = IF index < 0 THEN js_props \cup {index} ELSE js_props
  /\ array_op' = [op |-> "set", index |-> index, before |-> js_array, raised |-> "",
                  made |-> array_op.made + 1,
                  calls |-> <<"mr_alloc_int_val", "mr_alloc_int_val",
                              "mr_set_object_item">>,
                  got |-> 0]
  /\ UNCHANGED notArrayVars

ArrayNext ==
  \/ \E index \in Indices : JSArray_delitem(index)
  \/ \E index \in Indices :
       \E obj \in {Py("int", array_op.made + 1)} \cup {Py(t, 0) : t \in UnsupportedTypes} :
         JSArray_insert(index, obj)
  \/ \E index \in Indices : JSArray_getitem(index)

\* mr.eval("[]") gave the proxy of an empty array
ArraySpecInit == ArrayIdle /\ CtxInit /\ LibReady /\ ConvIdle /\ MemIdle /\ GcIdle /\ BufIdle /\ TimerIdle /\ IdIdle /\ SyncFutureIdle

ArraySpec == ArraySpecInit /\ [][ArrayNext]_vars

\* the same array, with assignment to its items as well
ArraySetNext ==
  \/ \E index \in Indices : JSArray_delitem(index)
  \/ \E index \in Indices : JSArray_insert(index, Py("int", array_op.made + 1))
  \/ \E index \in Indices : JSArray_getitem(index)
  \/ \E index \in Indices : JSArray_setitem(index)

ArraySetSpec == ArraySpecInit /\ [][ArraySetNext]_vars

\* the errors host code raises on its own: index bounds and conversion
C33_LocalErrors == {"IndexError", "JSArrayIndexError", "JSConversionException"}

\* C33 (as stated): an out-of-range JSArray read or delete, and the encoding of a
\* value of an unsupported type, raise having made no engine call
C33_LocalErrorsWithoutEngineCall ==
  (array_op.op \in {"get", "del", "insert"} /\ array_op.raised \in C33_LocalErrors) =>
    array_op.calls = <<>>

\* C33 (amended): a JSArray read or delete with an index outside [-n, n) raises
\* its index error after fetching the array's length from the engine, once or
\* twice, and with no other engine call (no element read, no splice); encoding a
\* value of an unsupported type raises JSConversionException with no engine call;
\* in each case the array is left as it was
C33_LocalErrorsAfterLengthOnly ==
  LET n == Len(array_op.before)
      i == array_op.index
      outside == i >= n \/ i < 0 - n
  IN /\ (array_op.op = "get" /\ outside) =>
          /\ array_op.raised = "IndexError"
          /\ array_op.calls = len_calls
          /\ js_array = array_op.before
     /\ (array_op.op = "del" /\ outside) =>
          /\ array_op.raised = "JSArrayIndexError"
          /\ array_op.calls \in {len_calls, len_calls \o len_calls}
          /\ js_array = array_op.before
     /\ (array_op.op = "insert" /\ array_op.raised = "JSConversionException") =>
          /\ array_op.calls = <<>>
          /\ js_array = array_op.before

\* "del a[i]" with i < -n on an array that has elements raised after two reads of
\* the length
C33_Witness ==
  /\ array_op.op = "del"
  /\ array_op.raised = "JSArrayIndexError"
  /\ Len(array_op.before) > 0
  /\ array_op.index < 0 - Len(array_op.before)
  /\ array_op.calls = len_calls \o len_calls
  /\ js_array = array_op.before

\* C36: "a[i] = v" on an array of length n treats the index as "a[i]" does: for i
\* outside [-n, n) it raises IndexError and leaves the array as it was; otherwise
\* it replaces the element at the normalised index (n + i for a negative i) and
\* the length stays n
C36_SetitemLikeGetitem ==
  array_op.op = "set" =>
    LET n == Len(array_op.before)
        i == array_op.index
    IN IF i >= n \/ i < 0 - n
       THEN array_op.raised = "IndexError" /\ js_array = array_op.before
       ELSE /\ array_op.raised = ""
            /\ Len(js_array) = n
            /\ js_array = [array_op.before EXCEPT
                             ![getitem_index(i, array_op.before) + 1] = array_op.made]

(***************************************************************************)
(* MiniRacer.eval / execute / call with max_memory.  execute wraps its     *)
(* expression and calls eval, call builds an expression and calls execute: *)
(* both hand max_memory on unchanged, so one call of eval stands for all.  *)
(***************************************************************************)
\* the max_memory arguments tried: omitted (None), 0, and two numbers of bytes
MaxMemoryArgs == {NoId, 0, 1, 2}

\* MiniRacer.eval, with a defect: "if max_memory:", which skips 0
eval_hard_limit_truthy(limits, max_memory) ==
  IF max_memory \notin {NoId, 0} THEN [limits EXCEPT !.hard = max_memory] ELSE limits

\* MiniRacer.eval: "if max_memory is not None: self.set_hard_memory_limit(max_memory)"
eval_hard_limit(limits, max_memory) ==
  IF max_memory # NoId THEN [limits EXCEPT !.hard = max_memory] ELSE limits

\* the threads that are between the two calls of MiniRacer.eval
InEvalArgs == {g \in Threads : th[g].pc = "args"}

\* MiniRacer.eval(code, max_memory = m), first part: the limit is set
MiniRacer_eval(h, max_memory) ==
  /\ th[h].pc = "idle"
  /\ ops_started + Cardinality(InEvalArgs) < MaxOps
  /\ th' = [th EXCEPT ![h] = [IdleThread EXCEPT !.op = "eval", !.pc = "args",
                                                !.max_memory = max_memory]]
  /\ mem_limits' = eval_hard_limit(mem_limits, max_memory)
  /\ UNCHANGED <<held, last, ops_started, cbVars, future, loop_calls, invoked,
                 pop_missing, task, promiseVars, values, rawinfo, free_errors>>
  /\ UNCHANGED <<libVars, arrayVars, convVars, gcVars, bufVars, timerVars, idVars, sfVars>>

\* MiniRacer.eval, second part: "return self._ctx.evaluate(code=code,
\* timeout_sec=timeout_sec)"
MiniRacer_eval_submit(h) ==
  /\ th[h].pc = "args"
  /\ evaluate_task(h, th[h].timeout)

EvalMemNext ==
  \/ \E h \in Threads, limit \in Limits : set_hard_memory_limit(h, limit)
  \/ \E h \in Threads, max_memory \in MaxMemoryArgs : MiniRacer_eval(h, max_memory)
  \/ \E h \in Threads : MiniRacer_eval_submit(h)
  \/ \E h \in Threads : RunMrTask_get(h)
  \/ \E h \in Threads : RunMrTask_exit(h)
  \/ \E id \in DOMAIN task, typ \in AllTags, p \in Promises \cup {""} :
       EngineDeliver(id, typ, p)
  \/ \E h \in Threads : drop_held(h)

EvalMemSpec == Init /\ [][EvalMemNext]_vars

\* C34: the step in which eval takes max_memory = m sets the hard limit to m, and
\* leaves it as it was when max_memory is omitted, and submits no task; the task
\* is submitted by a later step of the same call, which leaves the limits alone;
\* and the hard limit changes in no other step than such a one or a call of
\* set_hard_memory_limit, so that it stays in force for the evaluations after
C34_MaxMemorySetsHardLimit ==
  /\ [][\A h \in Threads :
          (th[h].pc = "idle" /\ th'[h].pc = "args") =>
            /\ mem_limits'.hard = IF th'[h].max_memory = NoId THEN mem_limits.hard
                                  ELSE th'[h].max_memory
            /\ mem_limits'.soft = mem_limits.soft
            /\ task' = task]_vars
  /\ [][\A id \in (DOMAIN task') \ DOMAIN task :
          /\ \E h \in Threads : th[h].pc = "args" /\ th'[h].pc = "wait" /\ th'[h].cb = id
          /\ mem_limits' = mem_limits]_vars
  /\ [][mem_limits'.hard # mem_limits.hard =>
          \/ th' = th /\ task' = task
          \/ \E h \in Threads : /\ th[h].pc = "idle" /\ th'[h].pc = "args"
                                 /\ th'[h].max_memory = mem_limits'.hard]_vars

\* a second evaluation ran under the limit that an eval with max_memory = 2 had
\* set, and ended with the out-of-memory error
C34_Witness ==
  /\ mem_limits.hard = 2
  /\ ops_started = 2
  /\ \E h \in Threads : th[h].pc = "drain" /\ th[h].outcome = JSOOMException


\* ---------------------------------------------------------------------------
\* The timer manager (_INSTALL_SET_TIMEOUT)
\* ---------------------------------------------------------------------------

\* the delay argument of a setTimeout call: left out, or a number of milliseconds
Delays ==
  {[given |-> FALSE, ms |-> 0]} \cup {[given |-> TRUE, ms |-> d] : d \in -1 .. MaxDelay}

\* Atomics.waitAsync's timeout: undefined converts to NaN, which waits without
\* limit; a number below 0 waits 0 ms
wait_timeout(delay) ==
  IF delay.given THEN [finite |-> TRUE, ms |-> Max(delay.ms, 0)]
  ELSE [finite |-> FALSE, ms |-> 0]

\* Atomics.waitAsync(view, 0, 0, delay) on a fresh buffer nobody else can notify: the
\* value read equals the expected 0; a timeout of 0 answers at once with the string
\* "timed-out" in .value, any other timeout with a promise in .value
Atomics_waitAsync(delay) ==
  LET t == wait_timeout(delay) IN
  IF t.finite /\ t.ms = 0 THEN [async |-> FALSE, finite |-> TRUE]
  ELSE [async |-> TRUE, finite |-> t.finite]

\* __TimerManager.setTimeout(func, delay): the id is taken and added to pending
\* before the wait is made; .value.then on a string is a TypeError, which leaves
\* setTimeout before its return
setTimeout(delay) ==
  LET id == timer_manager.next_idx
      wait == Atomics_waitAsync(delay) IN
  /\ id < MaxTimers
  /\ timer_manager' = [next_idx |-> id + 1, pending |-> timer_manager.pending \cup {id}]
  /\ IF wait.async
     THEN /\ timers' = [timers EXCEPT ![id].st = IF wait.finite THEN "waiting" ELSE "forever"]
          /\ timer_ids' = Append(timer_ids, id)
     ELSE /\ timers' = [timers EXCEPT ![id].st = "threw"]
          /\ UNCHANGED timer_ids
  /\ UNCHANGED notTimerVars

\* __TimerManager.clearTimeout(timeout_id)
clearTimeout(timeout_id) ==
  /\ timer_manager' = [timer_manager EXCEPT !.pending = @ \ {timeout_id}]
  /\ timers' = [timers EXCEPT ![timeout_id].cleared =
                  IF @ = "" /\ timers[timeout_id].st # "unset"
                  THEN timers[timeout_id].st ELSE @]
  /\ UNCHANGED timer_ids
  /\ UNCHANGED notTimerVars

\* the delay of a timer elapses: the engine resolves the promise of its wait, which
\* queues the reaction () => callback()
timer_elapse(id) ==
  /\ timers[id].st = "waiting"
  /\ timers' = [timers EXCEPT ![id].st = "queued"]
  /\ UNCHANGED <<timer_manager, timer_ids>>
  /\ UNCHANGED notTimerVars

\* the callback closure of setTimeout, run as the promise's reaction
timer_callback(id) ==
  /\ timers[id].st = "queued"
  /\ IF id \in timer_manager.pending
     THEN /\ timer_manager' = [timer_manager EXCEPT !.pending = @ \ {id}]
          /\ timers' = [timers EXCEPT ![id].st = "ran", ![id].calls = @ + 1]
     ELSE /\ timers' = [timers EXCEPT ![id].st = "ran"]
          /\ UNCHANGED timer_manager
  /\ UNCHANGED timer_ids
  /\ UNCHANGED notTimerVars

TimerNext ==
  \/ \E delay \in Delays : setTimeout(delay)
  \/ \E id \in TimerIds : clearTimeout(id)
  \/ \E id \in TimerIds : timer_elapse(id)
  \/ \E id \in TimerIds : timer_callback(id)

TimerSpec == Init /\ [][TimerNext]_vars

\* the engine's message loop keeps running: an elapsed wait is resolved, a queued
\* reaction is run
TimerFairSpec ==
  /\ Init
  /\ [][TimerNext]_vars
  /\ \A id \in TimerIds : WF_vars(timer_elapse(id)) /\ WF_vars(timer_callback(id))

\* C35 (statement, last part): every timer that was set and never cleared is
\* eventually invoked. Violated: setTimeout(f, 0) throws a TypeError after taking
\* the id, and setTimeout(f) waits without limit.
C35_UnclearedTimerInvoked ==
  \A id \in TimerIds :
    (timers[id].st # "unset") ~> (timers[id].calls > 0 \/ timers[id].cleared # "")

\* C35 (the parts that hold): the ids returned are pairwise distinct, no function is
\* invoked twice, and a timer cleared while its wait was pending is never invoked.
C35_DistinctOnceAndNotAfterClear ==
  /\ \A i, j \in DOMAIN timer_ids : i # j => timer_ids[i] # timer_ids[j]
  /\ \A id \in TimerIds :
       /\ timers[id].calls <= 1
       /\ timers[id].cleared \in {"waiting", "forever"} => timers[id].calls = 0


\* ---------------------------------------------------------------------------
\* Callback ids drawn by several threads (_run_mr_task, _make_js_callback)
\* ---------------------------------------------------------------------------

\* drawing an id, with a defect: the size of the table is taken as the next id
draw_callback_id_by_size(nid, acb) == Cardinality(DOMAIN acb)

\* "callback_id = next(self._next_callback_id)": itertools.count hands out its
\* value and advances in one call, which no other thread's bytecode can interrupt
draw_callback_id(nid, acb) == nid

\* what a thread registers: the callback of a task (_run_mr_task), or the function
\* a JS callback forwards to (_make_js_callback)
RegistrationKinds == {"task", "resolved"}

\* the ids a thread holds: those it stored, and the one it drew and is to store
live_ids(r) == r.own \cup (IF r.pc = "drawn" THEN {r.cur} ELSE {})

\* next(self._next_callback_id), the first statement of a registration
register_draw(h, kind) ==
  LET id == draw_callback_id(next_callback_id, active_callbacks) IN
  /\ registrants[h].pc = "ready"
  /\ Len(ids_drawn) < MaxIds
  /\ next_callback_id' = next_callback_id + 1
  /\ registrants' = [registrants EXCEPT ![h].pc = "drawn", ![h].cur = id,
                                        ![h].kind = kind]
  /\ ids_drawn' = Append(ids_drawn, id)
  /\ UNCHANGED active_callbacks
  /\ UNCHANGED notIdVars

\* "self._active_callbacks[callback_id] = ...", the statement after it
register_store(h) ==
  LET r == registrants[h] IN
  /\ r.pc = "drawn"
  /\ active_callbacks' = store_callback(active_callbacks, r.cur,
                                        [kind |-> r.kind, mode |-> "sync", fut |-> r.cur])
  /\ registrants' = [registrants EXCEPT ![h].pc = "ready", ![h].own = @ \cup {r.cur}]
  /\ UNCHANGED <<next_callback_id, ids_drawn>>
  /\ UNCHANGED notIdVars

\* "self._active_callbacks.pop(callback_id)", at the end of _run_mr_task and in the
\* cleanup of a JS callback
register_pop(h, id) ==
  /\ registrants[h].pc = "ready"
  /\ id \in registrants[h].own
  /\ id \in DOMAIN active_callbacks
  /\ active_callbacks' = Without(active_callbacks, {id})
  /\ registrants' = [registrants EXCEPT ![h].own = @ \ {id}]
  /\ UNCHANGED <<next_callback_id, ids_drawn>>
  /\ UNCHANGED notIdVars

IdNext ==
  \/ \E h \in Threads, kind \in RegistrationKinds : register_draw(h, kind)
  \/ \E h \in Threads : register_store(h)
  \/ \E h \in Threads, id \in 0 .. MaxIds : register_pop(h, id)

IdSpec == Init /\ [][IdNext]_vars

\* C37: no id is drawn twice, no two registrations that are live at the same time
\* (drawn and not yet popped, by the same or by different threads, for a task or
\* for a JS callback) have the same id, and every stored registration is still in
\* the table under its id with what its thread stored.
C37_CallbackIdsUnique ==
  /\ \A i, j \in DOMAIN ids_drawn : i # j => ids_drawn[i] # ids_drawn[j]
  /\ \A h1, h2 \in Threads :
       h1 # h2 => live_ids(registrants[h1]) \cap live_ids(registrants[h2]) = {}
  /\ \A h \in Threads :
       /\ registrants[h].pc = "drawn" => registrants[h].cur \notin registrants[h].own
       /\ registrants[h].own \subseteq DOMAIN active_callbacks
  /\ Cardinality(DOMAIN active_callbacks)
       = Cardinality(UNION {registrants[h].own : h \in Threads})

\* two threads have each drawn an id and stored none yet, after earlier
\* registrations of both kinds were popped
C37_Witness ==
  /\ \A h \in Threads : registrants[h].pc = "drawn"
  /\ {registrants[h].kind : h \in Threads} = RegistrationKinds
  /\ Len(ids_drawn) = MaxIds
  /\ DOMAIN active_callbacks = {}


\* ---------------------------------------------------------------------------
\* _SyncFuture: one waiting thread, one settling thread, statement by statement
\* ---------------------------------------------------------------------------

\* what set_result and set_exception are called with (0 stands for None)
SyncResults == {0, 1}
SyncExceptions == {1, 2}

\* how a get call ends: k is "return", "raise" or "timeout" (JSTimeoutException)
GetOutcome(k, v) == [k |-> k, v |-> v]

\* a finished get call: its outcome, whether the future was settled when it ended,
\* and whether a notification had ended its wait
GetCall(out, settled, woken) ==
  [k |-> out.k, v |-> out.v, settled |-> settled, woken |-> woken]

same_outcome(call, out) == call.k = out.k /\ call.v = out.v

\* "if self._exc: raise self._exc / return self._res"
settled_outcome(f) ==
  IF f.exc # 0 THEN GetOutcome("raise", f.exc) ELSE GetOutcome("return", f.res)

\* Condition.notify, with a defect: the waiter is left as it is
cv_notify_skipped(waiter) == waiter

\* Condition.notify(): the first queued waiter lock is released and unqueued
cv_notify(waiter) == IF waiter = "armed" THEN "released" ELSE waiter

\* _SyncFuture.get(timeout=...): "with self._cv" is entered
SyncFuture_get(timed) ==
  /\ sf_getter.pc = "idle"
  /\ Len(get_log) < MaxGets
  /\ sync_future.owner = ""
  /\ sync_future' = [sync_future EXCEPT !.owner = "get"]
  /\ sf_getter' = [pc |-> "check", timed |-> timed, gotit |-> FALSE]
  /\ UNCHANGED <<sf_setter, get_log>>
  /\ UNCHANGED notSfVars

\* "while not self._settled": settled, the call ends with the outcome and leaves
\* the lock; not settled, Condition.wait queues a waiter lock and releases the lock
SyncFuture_get_check ==
  /\ sf_getter.pc = "check"
  /\ IF sync_future.settled
     THEN /\ get_log' = Append(get_log, GetCall(settled_outcome(sync_future), TRUE,
                                            sf_getter.gotit))
          /\ sync_future' = [sync_future EXCEPT !.owner = ""]
          /\ sf_getter' = [sf_getter EXCEPT !.pc = "idle"]
     ELSE /\ sync_future' = [sync_future EXCEPT !.owner = "", !.waiter = "armed"]
          /\ sf_getter' = [sf_getter EXCEPT !.pc = "waiting"]
          /\ UNCHANGED get_log
  /\ UNCHANGED sf_setter
  /\ UNCHANGED notSfVars

\* Condition.wait: waiter.acquire succeeds once notify released the waiter lock
cv_wait_notified ==
  /\ sf_getter.pc = "waiting"
  /\ sync_future.waiter = "released"
  /\ sf_getter' = [sf_getter EXCEPT !.pc = "relock", !.gotit = TRUE]
  /\ UNCHANGED <<sync_future, sf_setter, get_log>>
  /\ UNCHANGED notSfVars

\* Condition.wait: waiter.acquire(True, timeout) gives up, the timeout has elapsed
\* with the waiter lock still held
cv_wait_timed_out ==
  /\ sf_getter.pc = "waiting"
  /\ sf_getter.timed
  /\ sync_future.waiter = "armed"
  /\ sf_getter' = [sf_getter EXCEPT !.pc = "relock", !.gotit = FALSE]
  /\ UNCHANGED <<sync_future, sf_setter, get_log>>
  /\ UNCHANGED notSfVars

\* Condition.wait's finally: the lock is taken again and the waiter unqueued; wait
\* returns gotit, and get raises JSTimeoutException when it is False, without
\* looking at _settled
cv_wait_return ==
  /\ sf_getter.pc = "relock"
  /\ sync_future.owner = ""
  /\ IF sf_getter.gotit
     THEN /\ sync_future' = [sync_future EXCEPT !.owner = "get", !.waiter = "none"]
          /\ sf_getter' = [sf_getter EXCEPT !.pc = "check"]
          /\ UNCHANGED get_log
     ELSE /\ sync_future' = [sync_future EXCEPT !.waiter = "none"]
          /\ sf_getter' = [sf_getter EXCEPT !.pc = "idle"]
          /\ get_log' = Append(get_log, GetCall(GetOutcome("timeout", 0),
                                            sync_future.settled, FALSE))
  /\ UNCHANGED sf_setter
  /\ UNCHANGED notSfVars

\* set_result(res): "with self._cv" is entered
SyncFuture_set_result(res) ==
  /\ sf_setter.pc = "idle"
  /\ sync_future.owner = ""
  /\ sync_future' = [sync_future EXCEPT !.owner = "set"]
  /\ sf_setter' = [pc |-> "locked", kind |-> "res", arg |-> res]
  /\ UNCHANGED <<sf_getter, get_log>>
  /\ UNCHANGED notSfVars

\* set_exception(exc): "with self._cv" is entered
SyncFuture_set_exception(exc) ==
  /\ sf_setter.pc = "idle"
  /\ sync_future.owner = ""
  /\ sync_future' = [sync_future EXCEPT !.owner = "set"]
  /\ sf_setter' = [pc |-> "locked", kind |-> "exc", arg |-> exc]
  /\ UNCHANGED <<sf_getter, get_log>>
  /\ UNCHANGED notSfVars

\* "self._res = res" or "self._exc = exc", and "self._settled = True"
SyncFuture_assign ==
  /\ sf_setter.pc = "locked"
  /\ sync_future' = [sync_future EXCEPT
                       !.res = IF sf_setter.kind = "res" THEN sf_setter.arg ELSE @,
                       !.exc = IF sf_setter.kind = "exc" THEN sf_setter.arg ELSE @,
                       !.settled = TRUE]
  /\ sf_setter' = [sf_setter EXCEPT !.pc = "assigned"]
  /\ UNCHANGED <<sf_getter, get_log>>
  /\ UNCHANGED notSfVars

\* "self._cv.notify()", and the lock is left
SyncFuture_notify ==
  /\ sf_setter.pc = "assigned"
  /\ sync_future' = [sync_future EXCEPT !.waiter = cv_notify(@), !.owner = ""]
  /\ sf_setter' = [sf_setter EXCEPT !.pc = "done"]
  /\ UNCHANGED <<sf_getter, get_log>>
  /\ UNCHANGED notSfVars

SyncFutureNext ==
  \/ \E timed \in BOOLEAN : SyncFuture_get(timed)
  \/ SyncFuture_get_check
  \/ cv_wait_notified
  \/ cv_wait_timed_out
  \/ cv_wait_return
  \/ \E res \in SyncResults : SyncFuture_set_result(res)
  \/ \E exc \in SyncExceptions : SyncFuture_set_exception(exc)
  \/ SyncFuture_assign
  \/ SyncFuture_notify

SyncFutureSpec == Init /\ [][SyncFutureNext]_vars

\* the wait of a get times out
WaitTimesOut == sf_getter.pc = "waiting" /\ sf_getter'.pc = "relock" /\ ~sf_getter'.gotit

\* no waiting get is left without its notification: once the setting call has
\* returned, the waiter lock of a get that is still in wait has been released
SyncFuture_NoLostWakeup ==
  sf_setter.pc = "done" /\ sf_getter.pc = "waiting" => sync_future.waiter = "released"

\* C38 (statement): a get call that ends when the future is settled, the settlement
\* having happened before the call or during it, ends with the settled outcome.
\* Violated by a get whose timeout elapses just before the settlement.
C38_GetYieldsSettlement ==
  /\ SyncFuture_NoLostWakeup
  /\ \A i \in DOMAIN get_log :
       get_log[i].settled => same_outcome(get_log[i], settled_outcome(sync_future))

\* C38 (amended): a get call ends with the settled outcome of the future, or with
\* JSTimeoutException; a wait times out only in a get that was given a timeout
\* and only before the setting call has returned; no waiting get needs a further
\* notification; every get after one that gave the outcome gives that outcome.
C38_GetYieldsSettlementOrTimesOut ==
  /\ [](/\ SyncFuture_NoLostWakeup
        /\ \A i \in DOMAIN get_log :
             /\ get_log[i].k # "timeout"
                  => /\ get_log[i].settled
                     /\ same_outcome(get_log[i], settled_outcome(sync_future))
             /\ \A j \in DOMAIN get_log :
                  i < j /\ get_log[i].k # "timeout"
                    => same_outcome(get_log[j], get_log[i]))
  /\ [][WaitTimesOut => sf_getter.timed /\ sf_setter.pc # "done"]_vars

\* a get timed out before the settlement; the settlement was made while the next
\* get was waiting, which ended with the exception set; so did the get after it
C38_Witness ==
  /\ Len(get_log) = 3
  /\ get_log[1].k = "timeout" /\ ~get_log[1].settled
  /\ get_log[2] = GetCall(GetOutcome("raise", 2), TRUE, TRUE)
  /\ get_log[3] = GetCall(GetOutcome("raise", 2), TRUE, FALSE)


\* ---------------------------------------------------------------------------
\* The entries of a promise attachment (checked under Spec)
\* ---------------------------------------------------------------------------

\* the reaction of attachment att runs in this step: its promise is settled and
\* calls one of the two JS callbacks
ReactionRuns(att) ==
  \E p \in Promises :
    pstate[p].st # "pending" /\ att \in reactions[p] /\ att \notin reactions'[p]

\* the get of thread h on the future of attachment att times out in this step
PromiseGetTimesOut(h, att) ==
  /\ th[h].att = att /\ th[h].stage = "promise" /\ th[h].op = "get"
  /\ th'[h].pc = "idle" /\ last'[h].timed_out

\* two evaluations have returned: each thread holds a JSPromise proxy, with a wire
\* value of its own, of the one promise, which is pending; ids 0 and 1 were used
\* by the two evaluations
PromisesHeldInit ==
  /\ th = [h \in Threads |-> IdleThread]
  /\ held = [h \in Threads |-> Proxy("JSPromise", <<IF h = "t1" THEN 3 ELSE 1, 1>>)]
  /\ last = [h \in Threads |-> [NoLast EXCEPT !.op = "evaluate"]]
  /\ ops_started = 0
  /\ active_callbacks = <<>>
  /\ next_callback_id = 2
  /\ cleanups = <<>>
  /\ future = <<>>
  /\ loop_calls = {}
  /\ invoked = <<>>
  /\ pop_missing = 0
  /\ task = <<>>
  /\ pstate = [p \in Promises |-> [st |-> "pending", val |-> ""]]
  /\ reactions = [p \in Promises |-> {}]
  /\ values = {1, 3}
  /\ rawinfo = [r \in {1, 3} |-> Wrapped([x \in {r} |-> NewInfo(promise, "p1", "", FALSE)], r)[r]]
  /\ free_errors = 0
  /\ LibReady /\ ArrayIdle /\ ConvIdle /\ MemIdle /\ GcIdle /\ BufIdle /\ TimerIdle
  /\ IdIdle /\ SyncFutureIdle

\* the operations on the promise: JSPromise.get from either thread, the tasks it
\* starts, the settling of the promise and its reactions
PromiseNext ==
  \/ \E h \in Threads, timeout \in BOOLEAN : get_from_promise(h, timeout)
  \/ \E h \in Threads : RunMrTask_get(h)
  \/ \E h \in Threads : RunMrTask_exit(h)
  \/ \E h \in Threads : PromiseGet(h)
  \/ \E h \in Threads : drop_held(h)
  \/ \E id \in DOMAIN task, typ \in AllTags, p \in Promises \cup {""} :
       EngineDeliver(id, typ, p)
  \/ \E p \in Promises, st \in {"resolved", "rejected"}, val \in {"int", "str"} :
       Settle(p, st, val)
  \/ \E p \in Promises : \E att \in reactions[p] : FireReaction(p, att)

PromiseSpec == PromisesHeldInit /\ [][PromiseNext]_vars

\* C39: in every step, for every attachment whose two entries are registered:
\* an entry leaves the table only in the step in which the settled promise runs the
\* attachment's reaction; that step removes both entries, finds none missing,
\* changes no other entry, no other future and no host thread; a get that times
\* out leaves both entries.
C39_EntriesRemovedBySettlementOnly ==
  [][\A att \in DOMAIN cleanups :
       LET ids == cleanups[att] IN
       ids \subseteq DOMAIN active_callbacks =>
         /\ ~(ids \subseteq DOMAIN active_callbacks') => ReactionRuns(att)
         /\ ReactionRuns(att) =>
              /\ ids \cap DOMAIN active_callbacks' = {}
              /\ pop_missing' = pop_missing
              /\ \A id \in DOMAIN active_callbacks \ ids :
                   id \in DOMAIN active_callbacks'
                   /\ active_callbacks'[id] = active_callbacks[id]
              /\ \A f \in DOMAIN future \ {att} :
                   f \in DOMAIN future' /\ future'[f] = future[f]
              /\ th' = th /\ held' = held
         /\ \A h \in Threads :
              PromiseGetTimesOut(h, att) => ids \subseteq DOMAIN active_callbacks'
    ]_vars

\* a JSPromise.get has timed out and both entries of its attachment are still
\* registered; the promise has settled since and is about to run the reaction,
\* while another thread waits on an attachment of its own
C39_Witness ==
  \E att \in DOMAIN cleanups, h \in Threads, w \in Threads, p \in Promises :
    /\ th[h].pc = "idle" /\ last[h].op = "get" /\ last[h].timed_out
    /\ ~Waiting(att)
    /\ att \in DOMAIN future /\ ~future[att].settled
    /\ cleanups[att] \subseteq DOMAIN active_callbacks
    /\ pstate[p].st # "pending" /\ att \in reactions[p]
    /\ th[w].stage = "promise" /\ th[w].att # att /\ th[w].att \in reactions[p]

====
